---- MODULE Spec2Model ----
(***************************************************************************)
(* Verification model of the dynatrace-service:                            *)
(*   - the dashboard locator (SearchForDashboardMatching),                 *)
(*   - the security-problem tile processor and the tile dispatch around it,*)
(*   - the paginated entity listing exercised by the service synchronizer  *)
(*     test,                                                               *)
(*   - event handling (gotEvent, NewEventHandler),                         *)
(*   - the resource lookup of ConfigResourceClient,                        *)
(*   - the credentials (GetDynatraceCredentials, getCleanURL),             *)
(*   - ConfigureMonitoringEventHandler.                                    *)
(* Go strings are TLA+ strings; a character is a string of length one.     *)
(***************************************************************************)
EXTENDS Integers, Sequences, FiniteSets, TLC

VARIABLES
    dashboards,     \* Dashboards.Dashboards: sequence of [ID, Name]
    project,        \* the triple the locator is asked for
    service,
    stage,
    searchPc,       \* "idle" before the call, "done" after it returned
    searchImpl,     \* which implementation was called: "none", "strings", "event"
    searchResult,   \* the returned identifier ("" = not found)
    tiles,          \* the dashboard's tiles, in document order
    dashboardFilter,\* DashboardFilter: its management zone ("" = none)
    startUnix,      \* SecurityProblemTileProcessing.startUnix
    endUnix,        \* SecurityProblemTileProcessing.endUnix
    backend,        \* what the security problems API answers to each query
    tileIndex,      \* position of the next tile to dispatch
    report,         \* the TileResults collected so far, in order
    skipped,        \* positions of the tiles recorded as skipped
    calls,          \* the calls the backend received: tile, query, from, to, outcome
    pages,          \* the pages the entities API serves, as EntitiesResponse values
    isFirstRequest, \* the mock server's flag of the same name
    listPc,         \* the listing: "start", "paging", "done", "failed"
    nextPageKey,    \* the cursor the client holds
    entities,       \* the entities accumulated so far
    requests,       \* the requests sent, in order
    responses,      \* the status and the served page of each request, in order
    listResult,     \* what the listing returned: error kind ("" = none), entities
    event,          \* the received cloud event: its type, whether its payload parses
    environment,    \* what the collaborators of NewEventHandler answer
    handlerPc,      \* gotEvent: "received" before the call, "handled" after it
    handler,        \* the DynatraceEventHandler NewEventHandler returned
    lookups,        \* the lookups and client creations performed, in order
    usedDashboard,  \* the dashboard identifier the get-sli run works with
    matchingDone,   \* whether the run searched the dashboards by name
    gotEventResult, \* the error gotEvent returned ("" = nil)
    credentialsAndConfig, \* what getDynatraceCredentialsAndConfig returned, when it was called
    gotEventCalls,  \* gotEvent: the error NewEventHandler returned, the error of each HandleEvent call
    selectors,      \* the selectors handed to processProblemSelector, in order
    resources,      \* what the configuration service holds at each level
    resourceArgs,   \* GetResource's arguments: project, stage, service, resourceURI
    resourcePc,     \* GetResource: "called" before, "returned" after
    consulted,      \* the levels GetResource asked, in order
    resourceResult, \* what GetResource returned: content and error
    secrets,        \* what the secret reader holds per key ("" = absent)
    credentialsPc,  \* GetDynatraceCredentials: "called" before, "returned" after
    credentials,    \* what GetDynatraceCredentials returned
    monitoringEvent,\* the configure-monitoring event: for Dynatrace or not, project, service
    monitoringEnv,  \* what the collaborators of configureMonitoring answer
    monitoringPc,   \* HandleEvent: "called" before, "returned" after
    monitoringCalls,\* the collaborators configureMonitoring called, in order
    sentEvents,     \* the finished events handed to SendCloudEvent, in order
    monitoringResult\* what HandleEvent and configureMonitoring returned

dashVars == <<dashboards, project, service, stage, searchPc, searchImpl, searchResult>>

tileVars == <<tiles, dashboardFilter, startUnix, endUnix, backend, tileIndex,
              report, skipped, calls>>

pageVars == <<pages, isFirstRequest, listPc, nextPageKey, entities, requests,
              responses, listResult>>

handlerVars == <<event, environment, handlerPc, handler, lookups, usedDashboard,
                 matchingDone, gotEventResult, gotEventCalls,
                 credentialsAndConfig>>

selectorVars == <<selectors>>

resourceVars == <<resources, resourceArgs, resourcePc, consulted, resourceResult>>

credentialVars == <<secrets, credentialsPc, credentials>>

monitoringVars == <<monitoringEvent, monitoringEnv, monitoringPc, monitoringCalls,
                    sentEvents, monitoringResult>>

vars == <<dashVars, tileVars, pageVars, handlerVars, selectorVars, resourceVars,
          credentialVars, monitoringVars>>

\* what the actions of one part leave alone
exceptDashVars == <<tileVars, pageVars, handlerVars, selectorVars, resourceVars,
                    credentialVars,
        monitoringVars>>
exceptTileVars == <<dashVars, pageVars, handlerVars, selectorVars, resourceVars,
                    credentialVars,
        monitoringVars>>
exceptPageVars == <<dashVars, tileVars, handlerVars, selectorVars, resourceVars,
                    credentialVars,
        monitoringVars>>

(***************************************************************************)
(* Go's strings package, on the ASCII range the names use.                 *)
(***************************************************************************)
UpperChars == "ABCDEFGHIJKLMNOPQRSTUVWXYZ"
LowerChars == "abcdefghijklmnopqrstuvwxyz"

CharAt(s, i) == SubSeq(s, i, i)

\* unicode.ToLower, as a table over the upper-case letters
LowerOf == [c \in {CharAt(UpperChars, i) : i \in 1..Len(UpperChars)} |->
              CharAt(LowerChars, CHOOSE i \in 1..Len(UpperChars) : CharAt(UpperChars, i) = c)]

\* unicode.ToLower of one character
ToLowerChar(c) == IF c \in DOMAIN LowerOf THEN LowerOf[c] ELSE c

RECURSIVE ToLower(_)
\* strings.ToLower
ToLower(s) ==
    IF Len(s) = 0 THEN ""
    ELSE ToLowerChar(CharAt(s, 1)) \o ToLower(SubSeq(s, 2, Len(s)))

\* strings.HasPrefix
HasPrefix(s, prefix) ==
    /\ Len(s) >= Len(prefix)
    /\ SubSeq(s, 1, Len(prefix)) = prefix

RECURSIVE IndexFrom(_, _, _)
IndexFrom(s, sep, i) ==
    IF i > Len(s) THEN 0
    ELSE IF CharAt(s, i) = sep THEN i
    ELSE IndexFrom(s, sep, i + 1)

\* strings.Index for a one-character separator: 0 when absent (Go: -1)
Index(s, sep) == IndexFrom(s, sep, 1)

RECURSIVE Split(_, _)
\* strings.Split for a one-character separator: Split("", ";") = <<"">>
Split(s, sep) ==
    LET i == Index(s, sep)
    IN  IF i = 0 THEN <<s>>
        ELSE <<SubSeq(s, 1, i - 1)>> \o Split(SubSeq(s, i + 1, Len(s)), sep)

RECURSIVE Join(_, _)
\* strings.Join
Join(parts, sep) ==
    IF Len(parts) = 0 THEN ""
    ELSE IF Len(parts) = 1 THEN parts[1]
    ELSE parts[1] \o sep \o Join(Tail(parts), sep)

(***************************************************************************)
(* Dashboard locator.                                                      *)
(***************************************************************************)
\* the inner loops over keyValuePairs and nameSplits: foundValue is set when
\* some split, lower-cased, compares equal to findValue
FoundValueCaseSensitive(findValue, nameSplits) ==
    \E i \in 1..Len(nameSplits) : findValue = nameSplits[i]

FoundValue(findValue, nameSplits) ==
    \E i \in 1..Len(nameSplits) : findValue = ToLower(nameSplits[i])

\* dashboardMatch after the loop over keyValuePairs
DashboardMatchSkipsLast(keyValuePairs, nameSplits) ==
    \A k \in 1..(Len(keyValuePairs) - 1) : FoundValue(keyValuePairs[k], nameSplits)

DashboardMatch(keyValuePairs, nameSplits) ==
    \A k \in 1..Len(keyValuePairs) : FoundValue(keyValuePairs[k], nameSplits)

\* the marker test of the outer loop's if
HasMarkerAnywhere(name) ==
    \E i \in 1..Len(name) : HasPrefix(ToLower(SubSeq(name, i, Len(name))), "kqg;")

HasMarker(name) == HasPrefix(ToLower(name), "kqg;")

RECURSIVE SearchFromKeepsLast(_, _, _)
SearchFromKeepsLast(ds, i, keyValuePairs) ==
    IF i > Len(ds) THEN (IF Len(ds) = 0 THEN "" ELSE ds[Len(ds)].ID)
    ELSE IF /\ HasPrefix(ToLower(ds[i].Name), "kqg;")
            /\ \A k \in 1..Len(keyValuePairs) :
                  \E j \in 1..Len(Split(ds[i].Name, ";")) :
                     keyValuePairs[k] = ToLower(Split(ds[i].Name, ";")[j])
         THEN ds[i].ID
         ELSE SearchFromKeepsLast(ds, i + 1, keyValuePairs)

RECURSIVE SearchFromReturnsLastMatch(_, _, _)
\* the loop without its return: the last dashboard that matches wins
SearchFromReturnsLastMatch(ds, i, keyValuePairs) ==
    IF i > Len(ds) THEN ""
    ELSE LET later == SearchFromReturnsLastMatch(ds, i + 1, keyValuePairs)
         IN  IF later # "" THEN later
             ELSE IF /\ HasPrefix(ToLower(ds[i].Name), "kqg;")
                     /\ \A k \in 1..Len(keyValuePairs) :
                           \E j \in 1..Len(Split(ds[i].Name, ";")) :
                              keyValuePairs[k] = ToLower(Split(ds[i].Name, ";")[j])
             THEN ds[i].ID
             ELSE ""

RECURSIVE SearchFrom(_, _, _)
\* the loop over dashboards.Dashboards from position i on; returns at the
\* first dashboard that has the marker and matches; "" after the loop
SearchFrom(ds, i, keyValuePairs) ==
    IF i > Len(ds) THEN ""
    ELSE IF /\ HasMarker(ds[i].Name)
            /\ DashboardMatch(keyValuePairs, Split(ds[i].Name, ";"))
         THEN ds[i].ID
         ELSE SearchFrom(ds, i + 1, keyValuePairs)

\* Dashboards.SearchForDashboardMatching(project, stage, service)
SearchForDashboardMatching(ds, p, st, sv) ==
    SearchFrom(ds, 1, << ToLower("project=" \o p),
                         ToLower("stage=" \o st),
                         ToLower("service=" \o sv) >>)

\* the search by event with the stage pair left out
SearchForDashboardMatchingEventWithoutStage(ds, keptnEvent) ==
    SearchFrom(ds, 1, << ToLower("project=" \o keptnEvent.Project),
                         ToLower("service=" \o keptnEvent.Service) >>)

\* DynatraceDashboards.SearchForDashboardMatching(keptnEvent)
SearchForDashboardMatchingEvent(ds, keptnEvent) ==
    SearchFrom(ds, 1, << ToLower("project=" \o keptnEvent.Project),
                         ToLower("service=" \o keptnEvent.Service),
                         ToLower("stage=" \o keptnEvent.Stage) >>)

(***************************************************************************)
(* The parts of the state a specification does not exercise stay idle.     *)
(***************************************************************************)
IdleDashboards ==
    /\ dashboards = <<>>
    /\ project = ""
    /\ service = ""
    /\ stage = ""
    /\ searchPc = "off"
    /\ searchImpl = "none"
    /\ searchResult = ""

IdleHandler ==
    /\ event = [type |-> "", adapterFails |-> FALSE]
    /\ environment = <<>>
    /\ handlerPc = "off"
    /\ handler = [kind |-> ""]
    /\ lookups = <<>>
    /\ usedDashboard = ""
    /\ matchingDone = FALSE
    /\ gotEventResult = ""
    /\ gotEventCalls = [NewEventHandler |-> "", HandleEvent |-> <<>>]
    /\ credentialsAndConfig = [called |-> FALSE]

IdleSelectors == selectors = <<>>

IdleResources ==
    /\ resources = <<>>
    /\ resourceArgs = [project |-> "", stage |-> "", service |-> "", resourceURI |-> ""]
    /\ resourcePc = "off"
    /\ consulted = <<>>
    /\ resourceResult = [content |-> "", err |-> [kind |-> "nil"]]

IdleCredentials ==
    /\ secrets = <<>>
    /\ credentialsPc = "off"
    /\ credentials = [nil |-> TRUE]

\* the parts added after the dashboard locator, the tiles, the listing and
\* the event handling
IdleMonitoring ==
    /\ monitoringEvent = [notForDynatrace |-> TRUE, project |-> "", service |-> ""]
    /\ monitoringEnv = <<>>
    /\ monitoringPc = "off"
    /\ monitoringCalls = <<>>
    /\ sentEvents = <<>>
    /\ monitoringResult = [HandleEvent |-> "", configureMonitoring |-> ""]

IdleRest == IdleSelectors /\ IdleResources /\ IdleCredentials /\ IdleMonitoring

IdlePages ==
    /\ pages = <<>>
    /\ isFirstRequest = TRUE
    /\ listPc = "off"
    /\ nextPageKey = ""
    /\ entities = <<>>
    /\ requests = <<>>
    /\ responses = <<>>
    /\ listResult = [err |-> "", entities |-> <<>>]

IdleTiles ==
    /\ tiles = <<>>
    /\ dashboardFilter = ""
    /\ startUnix = 0
    /\ endUnix = 0
    /\ backend = <<>>
    /\ tileIndex = 0
    /\ report = <<>>
    /\ skipped = {}
    /\ calls = <<>>

(***************************************************************************)
(* Inputs of the locator.                                                  *)
(***************************************************************************)
MaxDashboards == 2

Projects == {"shop", "Shop"}
Services == {"carts"}
Stages == {"dev", "prod"}

\* name parts after the marker: the three required pairs in every order and
\* in several letter cases, with extra parts, with one pair missing, with a
\* pair that is only a prefix of a part, and with no part at all
PartSeqs ==
    { <<"project=shop", "Service=Carts", "STAGE=dev">>,
      <<"project=shop", "STAGE=dev", "Service=Carts">>,
      <<"Service=Carts", "project=shop", "STAGE=dev">>,
      <<"Service=Carts", "STAGE=dev", "project=shop">>,
      <<"STAGE=dev", "project=shop", "Service=Carts">>,
      <<"STAGE=dev", "Service=Carts", "project=shop">>,
      <<"owner=x", "PROJECT=SHOP", "service=carts", "stage=dev">>,
      <<"stage=Dev", "owner=x", "service=carts", "project=Shop", "team=y">>,
      <<"project=shop", "service=carts", "stage=prod">>,
      <<"project=shop", "service=carts">>,
      <<"service=carts", "stage=dev", "owner=x">>,
      <<"project=shop", "stage=dev">>,
      <<"project=shop2", "service=carts", "stage=dev">>,
      <<>> }

\* a part sequence that holds all three pairs, used with the other first parts
FullSeq == <<"project=shop", "service=carts", "stage=dev">>

\* first parts that are the marker in another letter case, or are not the marker
Markers == {"kqg", "Kqg"}
NonMarkers == {"xKQG", "KQ"}

\* the part sequences the names are joined from
NameSeqs ==
    { <<"KQG">> \o ps : ps \in PartSeqs }
        \cup { <<m>> \o FullSeq : m \in Markers \cup NonMarkers }

Names == { Join(seq, ";") : seq \in NameSeqs }

Digits == "0123456789"

\* the backend's dashboard identifiers are non-empty and unique
IdOf(i) == "dashboard-" \o CharAt(Digits, i + 1)

DashboardLists ==
    UNION { { [i \in 1..n |-> [ID |-> IdOf(i), Name |-> names[i]]] :
                names \in [1..n -> Names] } : n \in 0..MaxDashboards }

InitDashboards ==
    /\ dashboards \in DashboardLists
    /\ project \in Projects
    /\ service \in Services
    /\ stage \in Stages
    /\ searchPc = "idle"
    /\ searchImpl = "none"
    /\ searchResult = ""
    /\ IdleTiles
    /\ IdlePages
    /\ IdleHandler
    /\ IdleRest

Search ==
    /\ searchPc = "idle"
    /\ searchResult' = SearchForDashboardMatching(dashboards, project, stage, service)
    /\ searchImpl' = "strings"
    /\ searchPc' = "done"
    /\ UNCHANGED <<dashboards, project, service, stage>>
    /\ UNCHANGED exceptDashVars

SearchEvent ==
    /\ searchPc = "idle"
    /\ searchResult' = SearchForDashboardMatchingEvent(dashboards,
                            [Project |-> project, Service |-> service, Stage |-> stage])
    /\ searchImpl' = "event"
    /\ searchPc' = "done"
    /\ UNCHANGED <<dashboards, project, service, stage>>
    /\ UNCHANGED exceptDashVars

NextDashboards == Search \/ SearchEvent

SpecDashboards == InitDashboards /\ [][NextDashboards]_vars

(***************************************************************************)
(* Properties of the dashboard locator.  The match condition is stated on  *)
(* the parts a name was joined from, independently of the code's Split and *)
(* ToLower.                                                                *)
(***************************************************************************)
\* the parts a name of Names was joined from
PartsOf == [n \in Names |-> CHOOSE seq \in NameSeqs : Join(seq, ";") = n]

\* equality of two strings up to letter case
EqualFold(a, b) ==
    /\ Len(a) = Len(b)
    /\ \A i \in 1..Len(a) : ToLowerChar(CharAt(a, i)) = ToLowerChar(CharAt(b, i))

\* some part of the name is the pair key=value, in any letter case
HasPair(name, key, value) ==
    \E i \in 1..Len(PartsOf[name]) : EqualFold(PartsOf[name][i], key \o "=" \o value)

\* the name starts with the marker token, in any letter case
StartsWithMarker(name) ==
    /\ Len(PartsOf[name]) >= 2
    /\ EqualFold(PartsOf[name][1], "kqg")

\* the name holds all three required pairs of the asked triple
HasAllPairs(name) ==
    /\ HasPair(name, "project", project)
    /\ HasPair(name, "service", service)
    /\ HasPair(name, "stage", stage)

\* the match condition of the naming convention, for the asked triple
Matches(name) == StartsWithMarker(name) /\ HasAllPairs(name)

MatchingDashboards == { i \in 1..Len(dashboards) : Matches(dashboards[i].Name) }

\* C1: when some dashboard's name starts with the marker and holds the three
\* required pairs (any order, any letter case, extra parts allowed), the call
\* returns a non-empty identifier, the identifier of a dashboard that matches;
\* when only one dashboard matches, it is that dashboard's identifier.
C1_MatchingDashboardIsReturned ==
    (searchPc = "done" /\ MatchingDashboards # {}) =>
        /\ searchResult # ""
        /\ \E j \in MatchingDashboards : dashboards[j].ID = searchResult
        /\ \A i \in MatchingDashboards :
              MatchingDashboards = {i} => searchResult = dashboards[i].ID

\* a dashboard in second position, upper-case pairs and an extra part, is found
C1_Witness ==
    /\ searchPc = "done"
    /\ Len(dashboards) = 2
    /\ MatchingDashboards = {2}
    /\ dashboards[2].Name = "KQG;owner=x;PROJECT=SHOP;service=carts;stage=dev"
    /\ searchResult = dashboards[2].ID

\* C2: a dashboard whose name lacks one of the three required pairs is never
\* returned, and when every dashboard lacks a required pair the result is the
\* empty identifier.
C2_DashboardLackingAPairIsNotReturned ==
    searchPc = "done" =>
        /\ \A i \in 1..Len(dashboards) :
              ~HasAllPairs(dashboards[i].Name) => searchResult # dashboards[i].ID
        /\ (\A i \in 1..Len(dashboards) : ~HasAllPairs(dashboards[i].Name))
              => searchResult = ""

\* the spec's example: the name holds stage=dev, the query asks for stage prod
C2_Witness ==
    /\ searchPc = "done"
    /\ Len(dashboards) = 1
    /\ dashboards[1].Name = "KQG;owner=x;PROJECT=SHOP;service=carts;stage=dev"
    /\ stage = "prod"
    /\ searchResult = ""

\* C3: a dashboard whose name does not start with the marker token is never
\* returned, even when the name holds all three required pairs.
C3_DashboardWithoutMarkerIsNotReturned ==
    searchPc = "done" =>
        \A i \in 1..Len(dashboards) :
            ~StartsWithMarker(dashboards[i].Name) => searchResult # dashboards[i].ID

\* a name with all three pairs after a first part that only contains the marker
C3_Witness ==
    /\ searchPc = "done"
    /\ Len(dashboards) = 1
    /\ dashboards[1].Name = "xKQG;project=shop;service=carts;stage=dev"
    /\ HasAllPairs(dashboards[1].Name)
    /\ searchResult = ""

\* C4: when no dashboard matches, the empty list included, the call returns
\* the empty identifier (its only way to report: the result is a string, there
\* is no error value), and the call never changes the dashboard list.
C4_NotFoundIsTheEmptyIdentifier ==
    /\ []((searchPc = "done" /\ MatchingDashboards = {}) => searchResult = "")
    /\ [][dashboards' = dashboards]_vars

\* two dashboards, none matching, searched
C4_Witness ==
    /\ searchPc = "done"
    /\ Len(dashboards) = 2
    /\ MatchingDashboards = {}
    /\ searchResult = ""

(***************************************************************************)
(* Criteria parser: the threshold mini-language                            *)
(*   sli=<name>;pass=<op><num>[,<op><num>]*;warning=...;key=<bool>         *)
(***************************************************************************)
\* the comparison operators, longest first
Operators == <<"<=", ">=", "<", ">", "=">>

\* a numeric literal: an optional sign, digits, at most one decimal point
IsNumeric(s) ==
    LET body == IF Len(s) > 0 /\ CharAt(s, 1) \in {"-", "+"}
                THEN SubSeq(s, 2, Len(s)) ELSE s
    IN  /\ \E i \in 1..Len(body) : \E d \in 1..Len(Digits) : CharAt(body, i) = CharAt(Digits, d)
        /\ \A i \in 1..Len(body) :
              \/ \E d \in 1..Len(Digits) : CharAt(body, i) = CharAt(Digits, d)
              \/ CharAt(body, i) = "."
        /\ Cardinality({ i \in 1..Len(body) : CharAt(body, i) = "." }) <= 1

\* one criterion: an operator token immediately followed by a numeric
\* literal, which is kept as written
ParseCriterion(s) ==
    LET found == { k \in 1..Len(Operators) : HasPrefix(s, Operators[k]) }
    IN  IF found = {} THEN [ok |-> FALSE, op |-> "", value |-> s]
        ELSE LET k == CHOOSE x \in found : \A y \in found : x <= y
                 value == SubSeq(s, Len(Operators[k]) + 1, Len(s))
             IN  [ok |-> IsNumeric(value), op |-> Operators[k], value |-> value]

\* the criteria of one pass= or warning= clause, in order
ParseCriteria(valueString) ==
    LET items == Split(valueString, ",")
    IN  [i \in 1..Len(items) |-> ParseCriterion(items[i])]

\* the objective before any clause is read
EmptyObjective ==
    [ok |-> TRUE, SLI |-> "", Pass |-> <<>>, Warning |-> <<>>, KeySLI |-> FALSE]

\* reading one key=value clause into the objective
ParseClause(slo, clause) ==
    LET i == Index(clause, "=")
        nameString == ToLower(SubSeq(clause, 1, i - 1))
        valueString == SubSeq(clause, i + 1, Len(clause))
        criteria == ParseCriteria(valueString)
        criteriaOk == \A k \in 1..Len(criteria) : criteria[k].ok
        stripped == [k \in 1..Len(criteria) |->
                        [op |-> criteria[k].op, value |-> criteria[k].value]]
    IN  IF i = 0 THEN slo
        ELSE IF nameString = "sli"
             THEN [slo EXCEPT !.ok = slo.ok /\ slo.SLI = "", !.SLI = valueString]
        ELSE IF nameString = "pass"
             THEN [slo EXCEPT !.ok = slo.ok /\ criteriaOk, !.Pass = slo.Pass \o stripped]
        ELSE IF nameString = "warning"
             THEN [slo EXCEPT !.ok = slo.ok /\ criteriaOk, !.Warning = slo.Warning \o stripped]
        ELSE IF nameString = "key"
             THEN [slo EXCEPT !.ok = slo.ok /\ ToLower(valueString) \in {"true", "false"},
                              !.KeySLI = (ToLower(valueString) = "true")]
        ELSE slo

RECURSIVE ParseClauses(_, _, _)
ParseClauses(slo, clauses, k) ==
    IF k > Len(clauses) THEN slo
    ELSE ParseClauses(ParseClause(slo, clauses[k]), clauses, k + 1)

\* common.ParsePassAndWarningWithoutDefaultsFrom: ok is FALSE when the string
\* breaks the grammar (no sli= clause, two sli= clauses, a bad criterion)
ParsePassAndWarningWithoutDefaultsFrom(customName) ==
    LET slo == ParseClauses(EmptyObjective, Split(customName, ";"), 1)
    IN  [slo EXCEPT !.ok = slo.ok /\ slo.SLI # ""]

(***************************************************************************)
(* Scope filter merger.                                                    *)
(***************************************************************************)
\* NewManagementZoneFilter(dashboardFilter, tileManagementZone): the tile's
\* zone, when the tile has one, replaces the dashboard's
NewManagementZoneFilter(dashboardZone, tileZone) ==
    IF tileZone # "" THEN tileZone ELSE dashboardZone

\* ManagementZoneFilter.ForProblemSelector: the selector suffix
ForProblemSelector(zone) ==
    IF zone = "" THEN "" ELSE ",managementZoneIds(" \o zone \o ")"

(***************************************************************************)
(* Security problems API behind dynatrace.NewSecurityProblemsClient.       *)
(***************************************************************************)
\* SecurityProblemsClient.GetByQuery: the answer of the backend to the query
GetByQuery(problemQuery, from, to) == backend[problemQuery]

(***************************************************************************)
(* SecurityProblemTileProcessing.                                          *)
(***************************************************************************)
\* a nil *TileResult
NilTileResult == [nil |-> TRUE]

\* problemQuery with the selector's scoping left out
ProblemQueryStatusOnly(securityProblemSelector) ==
    IF securityProblemSelector # ""
    THEN "securityProblemSelector=status(OPEN)"
    ELSE ""

\* problemQuery of processProblemSelector
ProblemQuery(securityProblemSelector) ==
    IF securityProblemSelector # ""
    THEN "securityProblemSelector=" \o securityProblemSelector
    ELSE ""

\* sloString of processProblemSelector
SloStringStrictlyLess(indicatorName) == "sli=" \o indicatorName \o ";pass=<0;key=true"

SloString(indicatorName) == "sli=" \o indicatorName \o ";pass=<=0;key=true"

\* the indicator name of the problem tile processor
IndicatorNameOfProblems == "problems"

\* indicatorName of processProblemSelector
IndicatorName == "security_problems"

\* sloDefinition of processProblemSelector: built from constants only
SloDefinition == ParsePassAndWarningWithoutDefaultsFrom(SloString(IndicatorName))

\* processProblemSelector that adds each count to a running total kept across
\* tiles
processProblemSelectorRunningTotal(securityProblemSelector, from, to) ==
    LET problemQuery == ProblemQuery(securityProblemSelector)
        problemQueryResult == GetByQuery(problemQuery, from, to)
        call == [query |-> problemQuery, from |-> from, to |-> to,
                 outcome |-> problemQueryResult]
    IN  IF problemQueryResult.err
        THEN [err |-> TRUE, tileResult |-> NilTileResult, calls |-> <<call>>]
        ELSE [err |-> FALSE,
              tileResult |->
                 [nil |-> FALSE,
                  sliResult |-> [Metric |-> IndicatorName,
                                 Value |-> problemQueryResult.totalCount + Len(report),
                                 Success |-> TRUE],
                  objective |-> SloDefinition,
                  sliName |-> IndicatorName,
                  sliQuery |-> "SECPV2;" \o problemQuery],
              calls |-> <<call>>]

\* processProblemSelector: the error of the backend call, or the TileResult;
\* call is the request the backend received
processProblemSelector(securityProblemSelector, from, to) ==
    LET problemQuery == ProblemQuery(securityProblemSelector)
        problemQueryResult == GetByQuery(problemQuery, from, to)
        call == [query |-> problemQuery, from |-> from, to |-> to,
                 outcome |-> problemQueryResult]
    IN  IF problemQueryResult.err
        THEN [err |-> TRUE, tileResult |-> NilTileResult, calls |-> <<call>>]
        ELSE [err |-> FALSE,
              tileResult |->
                 [nil |-> FALSE,
                  sliResult |-> [Metric |-> IndicatorName,
                                 Value |-> problemQueryResult.totalCount,
                                 Success |-> TRUE],
                  objective |-> SloDefinition,
                  sliName |-> IndicatorName,
                  sliQuery |-> "SECPV2;" \o problemQuery],
              calls |-> <<call>>]

\* problemSelector of Process
ProblemSelectorAnyStatus(tileManagementZoneFilter) ==
    ForProblemSelector(tileManagementZoneFilter)

ProblemSelector(tileManagementZoneFilter) ==
    "status(OPEN)" \o ForProblemSelector(tileManagementZoneFilter)

\* Process that returns the result even after an error
ProcessKeepsFailedResult(tile, dashboardZone) ==
    LET out == processProblemSelector(
                  ProblemSelector(NewManagementZoneFilter(dashboardZone, tile.ManagementZone)),
                  startUnix, endUnix)
    IN  [tileResult |->
            IF out.err
            THEN [nil |-> FALSE,
                  sliResult |-> [Metric |-> IndicatorName, Value |-> 0, Success |-> FALSE],
                  objective |-> SloDefinition,
                  sliName |-> IndicatorName,
                  sliQuery |-> ""]
            ELSE out.tileResult,
         calls |-> out.calls]

\* Process that hands the two zones to NewManagementZoneFilter the other way
\* round
ProcessDashboardZoneFirst(tile, dashboardZone) ==
    LET tileManagementZoneFilter ==
            NewManagementZoneFilter(tile.ManagementZone, dashboardZone)
        problemSelector == ProblemSelector(tileManagementZoneFilter)
        out == processProblemSelector(problemSelector, startUnix, endUnix)
    IN  [tileResult |-> IF out.err THEN NilTileResult ELSE out.tileResult,
         calls |-> out.calls]

\* SecurityProblemTileProcessing.Process: nil when processProblemSelector
\* returned an error
Process(tile, dashboardZone) ==
    LET tileManagementZoneFilter ==
            NewManagementZoneFilter(dashboardZone, tile.ManagementZone)
        problemSelector == ProblemSelector(tileManagementZoneFilter)
        out == processProblemSelector(problemSelector, startUnix, endUnix)
    IN  [tileResult |-> IF out.err THEN NilTileResult ELSE out.tileResult,
         calls |-> out.calls]

(***************************************************************************)
(* Tile dispatcher and result aggregator.                                  *)
(***************************************************************************)
MaxTiles == 3

\* the tiles of a dashboard: security-problem tiles without and with a
\* management zone of their own, or with a threshold in the name, and a
\* markdown tile
TileSet ==
    { [TileType |-> "OPEN_SECURITY_PROBLEMS", Name |-> "Security problems", ManagementZone |-> ""],
      [TileType |-> "OPEN_SECURITY_PROBLEMS", Name |-> "Security problems", ManagementZone |-> "mz-tile"],
      [TileType |-> "OPEN_SECURITY_PROBLEMS", Name |-> "sli=vulns;pass=<=5;key=false", ManagementZone |-> ""],
      [TileType |-> "MARKDOWN", Name |-> "Notes", ManagementZone |-> ""] }

TileLists == UNION { [1..n -> TileSet] : n \in 0..MaxTiles }

DashboardZones == {"", "mz-dashboard"}

\* the time windows of a run
Windows == { [from |-> 100, to |-> 160], [from |-> 200, to |-> 500] }

\* the total counts the backend reports
TotalCounts == {0, 2}

\* the answers of the backend: an error, or a total count
Outcomes ==
    { [err |-> TRUE, totalCount |-> 0] }
        \cup { [err |-> FALSE, totalCount |-> n] : n \in TotalCounts }

\* the queries a run can send
Queries ==
    { ProblemQuery(ProblemSelector(z)) : z \in DashboardZones \cup {"mz-tile"} }

InitTiles ==
    /\ tiles \in TileLists
    /\ dashboardFilter \in DashboardZones
    /\ \E w \in Windows : startUnix = w.from /\ endUnix = w.to
    /\ backend \in [Queries -> Outcomes]
    /\ tileIndex = 1
    /\ report = <<>>
    /\ skipped = {}
    /\ calls = <<>>
    /\ IdleDashboards
    /\ IdlePages
    /\ IdleHandler
    /\ IdleRest

\* the dispatcher hands the next tile, a security-problem tile, to its
\* processor; a nil result is recorded as skipped and the tile is left out
DispatchSecurityProblemTile ==
    /\ tileIndex \in 1..Len(tiles)
    /\ tiles[tileIndex].TileType = "OPEN_SECURITY_PROBLEMS"
    /\ LET out == Process(tiles[tileIndex], dashboardFilter)
       IN  /\ calls' = calls \o [k \in 1..Len(out.calls) |->
                                    [tile |-> tileIndex,
                                     query |-> out.calls[k].query,
                                     from |-> out.calls[k].from,
                                     to |-> out.calls[k].to,
                                     outcome |-> out.calls[k].outcome]]
           /\ IF out.tileResult.nil
              THEN /\ report' = report
                   /\ skipped' = skipped \cup {tileIndex}
              ELSE /\ report' = Append(report, out.tileResult)
                   /\ skipped' = skipped
    /\ tileIndex' = tileIndex + 1
    /\ UNCHANGED <<tiles, dashboardFilter, startUnix, endUnix, backend>>
    /\ UNCHANGED exceptTileVars

\* a tile that is no indicator (markdown, header) is passed over silently
DispatchOtherTile ==
    /\ tileIndex \in 1..Len(tiles)
    /\ tiles[tileIndex].TileType # "OPEN_SECURITY_PROBLEMS"
    /\ tileIndex' = tileIndex + 1
    /\ UNCHANGED <<tiles, dashboardFilter, startUnix, endUnix, backend,
                   report, skipped, calls>>
    /\ UNCHANGED exceptTileVars

NextTiles == DispatchSecurityProblemTile \/ DispatchOtherTile

SpecTiles == InitTiles /\ [][NextTiles]_vars

(***************************************************************************)
(* Properties of tile processing.  A tile is told from the calls the       *)
(* backend received for it.                                                *)
(***************************************************************************)
\* the tiles dispatched so far
Dispatched == 1..(tileIndex - 1)

SecurityTiles == { i \in 1..Len(tiles) : tiles[i].TileType = "OPEN_SECURITY_PROBLEMS" }

\* the calls the backend answered with a total count, and with an error
AnsweredCalls == SelectSeq(calls, LAMBDA c : ~c.outcome.err)
FailedCalls == SelectSeq(calls, LAMBDA c : c.outcome.err)

\* the tile name embeds a threshold specification
EmbedsThreshold(name) ==
    \E k \in 1..Len(Split(name, ";")) : HasPrefix(ToLower(Split(name, ";")[k]), "sli=")

\* C5: a tile whose backend call fails yields no TileResult and is recorded
\* as skipped; dispatching goes on with the following tiles; the report holds
\* exactly the indicators of the tiles whose call succeeded, in dashboard
\* order.
C5_FailedTileIsSkippedAndOthersReported ==
    /\ Len(report) = Len(AnsweredCalls)
    /\ \A j \in 1..Len(report) :
          /\ ~report[j].nil
          /\ report[j].sliResult.Value = AnsweredCalls[j].outcome.totalCount
          /\ report[j].sliQuery = "SECPV2;" \o AnsweredCalls[j].query
    /\ \A j \in 1..(Len(AnsweredCalls) - 1) : AnsweredCalls[j].tile < AnsweredCalls[j + 1].tile
    /\ skipped = { FailedCalls[j].tile : j \in 1..Len(FailedCalls) }
    /\ \A i \in Dispatched \cap SecurityTiles : \E k \in 1..Len(calls) : calls[k].tile = i
    /\ (tileIndex <= Len(tiles)) => ENABLED NextTiles

\* three security-problem tiles, the call of the second one failed
C5_Witness ==
    /\ Len(tiles) = 3
    /\ tileIndex = 4
    /\ SecurityTiles = {1, 2, 3}
    /\ Len(calls) = 3
    /\ ~calls[1].outcome.err /\ calls[2].outcome.err /\ ~calls[3].outcome.err
    /\ Len(report) = 2
    /\ skipped = {2}

\* C6: the indicator of a security-problem tile without a threshold in its
\* name is named security_problems, and its objective is the one pass
\* criterion <=0, no warning criterion, key indicator.
C6_DefaultObjective ==
    \A j \in 1..Len(report) :
        (j <= Len(AnsweredCalls) /\ ~EmbedsThreshold(tiles[AnsweredCalls[j].tile].Name)) =>
            /\ report[j].sliName = "security_problems"
            /\ report[j].sliResult.Metric = "security_problems"
            /\ report[j].objective.ok
            /\ report[j].objective.SLI = "security_problems"
            /\ report[j].objective.Pass = << [op |-> "<=", value |-> "0"] >>
            /\ report[j].objective.Warning = << >>
            /\ report[j].objective.KeySLI = TRUE

\* a tile named without a threshold was processed and reported
C6_Witness ==
    /\ Len(report) >= 1
    /\ Len(AnsweredCalls) >= 1
    /\ tiles[AnsweredCalls[1].tile].Name = "Security problems"
    /\ ~EmbedsThreshold(tiles[AnsweredCalls[1].tile].Name)
    /\ report[1].objective.Pass = << [op |-> "<=", value |-> "0"] >>

\* the management zone that scopes tile i: the tile's own, else the dashboard's
EffectiveZone(i) ==
    IF tiles[i].ManagementZone # "" THEN tiles[i].ManagementZone ELSE dashboardFilter

\* C7: each dispatched security-problem tile has sent exactly one counting
\* query, for the selector status(OPEN) followed by the scoping suffix of its
\* effective filter and for the time window of the run; when the query
\* succeeded the indicator's value is the returned total count and its success
\* flag is true.
C7_OneCountingQueryPerTile ==
    /\ \A i \in Dispatched \cap SecurityTiles :
          /\ Cardinality({ k \in 1..Len(calls) : calls[k].tile = i }) = 1
          /\ \A k \in 1..Len(calls) :
                calls[k].tile = i =>
                   /\ calls[k].query = "securityProblemSelector=status(OPEN)"
                                           \o ForProblemSelector(EffectiveZone(i))
                   /\ calls[k].from = startUnix
                   /\ calls[k].to = endUnix
    /\ \A k \in 1..Len(calls) : calls[k].tile \in Dispatched \cap SecurityTiles
    /\ \A j \in 1..Len(AnsweredCalls) :
          j <= Len(report) =>
             /\ report[j].sliResult.Value = AnsweredCalls[j].outcome.totalCount
             /\ report[j].sliResult.Success = TRUE

\* a tile with its own zone under a dashboard zone, two problems counted
C7_Witness ==
    /\ tileIndex = 2
    /\ dashboardFilter = "mz-dashboard"
    /\ tiles[1].TileType = "OPEN_SECURITY_PROBLEMS"
    /\ tiles[1].ManagementZone = "mz-tile"
    /\ Len(calls) = 1
    /\ calls[1].query = "securityProblemSelector=status(OPEN),managementZoneIds(mz-tile)"
    /\ calls[1].outcome = [err |-> FALSE, totalCount |-> 2]
    /\ Len(report) = 1
    /\ report[1].sliResult.Value = 2

(***************************************************************************)
(* Entities API of the service synchronizer test: the mock server's        *)
(* handler, for a chain of pages linked by their NextPageKey.              *)
(***************************************************************************)
MaxPages == 3
MaxPageSize == 2

\* a chain whose last page carries a key as well
KeyOfNeverEmpty(i, n) == "next-page-key-" \o CharAt(Digits, i + 1)

\* NextPageKey of page i of n: empty on the last page
KeyOf(i, n) == IF i >= n THEN "" ELSE "next-page-key-" \o CharAt(Digits, i + 1)

RECURSIVE Sum(_, _)
Sum(f, n) == IF n = 0 THEN 0 ELSE f[n] + Sum(f, n - 1)

\* the EntitiesResponse values of a chain whose pages have the given sizes;
\* the entities are numbered in the order they are served
Chain(sizes, totalCount) ==
    [i \in 1..Len(sizes) |->
        [TotalCount |-> totalCount,
         PageSize |-> sizes[i],
         NextPageKey |-> KeyOf(i, Len(sizes)),
         Entities |-> [k \in 1..sizes[i] |-> Sum(sizes, i - 1) + k]]]

\* the chains the backend can serve; the first page's TotalCount is the
\* number of entities served, or does not reconcile with it
PageChains ==
    UNION { { Chain(sizes, Sum(sizes, n) + d) : sizes \in [1..n -> 0..MaxPageSize], d \in {0, 1} }
            : n \in 1..MaxPages }

\* the lookup that serves the page carrying the key once more
PageAfterSamePage(key) ==
    IF \E i \in 1..(Len(pages) - 1) : pages[i].NextPageKey = key
    THEN CHOOSE i \in 1..(Len(pages) - 1) : pages[i].NextPageKey = key
    ELSE 0

\* the page that follows the page carrying the key; 0 when no page carries it
PageAfter(key) ==
    IF \E i \in 1..(Len(pages) - 1) : pages[i].NextPageKey = key
    THEN (CHOOSE i \in 1..(Len(pages) - 1) : pages[i].NextPageKey = key) + 1
    ELSE 0

BadRequest == [status |-> 400, page |-> 0, isFirstRequest |-> isFirstRequest]

\* the handler with the flag left set
ServeHTTPKeepsFirstRequest(request) ==
    IF isFirstRequest
    THEN IF request.nextPageKey # "" THEN BadRequest
         ELSE [status |-> 200, page |-> 1, isFirstRequest |-> TRUE]
    ELSE BadRequest

\* dtMockServer's handler: the status, the page served and the new flag
ServeHTTP(request) ==
    IF isFirstRequest
    THEN IF request.nextPageKey # "" THEN BadRequest
         ELSE [status |-> 200, page |-> 1, isFirstRequest |-> FALSE]
    ELSE IF request.nextPageKey = "" \/ PageAfter(request.nextPageKey) = 0 THEN BadRequest
    ELSE IF request.entitySelector # "" THEN BadRequest
    ELSE IF request.fields # "" THEN BadRequest
    ELSE [status |-> 200, page |-> PageAfter(request.nextPageKey),
          isFirstRequest |-> FALSE]

(***************************************************************************)
(* Backend query client: the paginated listing.                            *)
(***************************************************************************)
\* the first request: empty cursor, full selector parameters
FirstRequest ==
    [nextPageKey |-> "",
     entitySelector |-> "type(SERVICE),tag(keptn_managed),tag(keptn_service)",
     fields |-> "+tags", from |-> "now-1d", to |-> "now"]

\* a following request: the cursor only
CursorRequest(cursor) ==
    [nextPageKey |-> cursor, entitySelector |-> "", fields |-> "", from |-> "", to |-> ""]

\* the result that hands out whatever was accumulated
ReconcileTruncates(accumulated) == [err |-> "", entities |-> accumulated]

\* the result once the last page is in: the accumulated entities, or an error
\* when they do not account for the first page's TotalCount
Reconcile(accumulated) ==
    IF Len(accumulated) = pages[1].TotalCount
    THEN [err |-> "", entities |-> accumulated]
    ELSE [err |-> "PaginationProtocolError", entities |-> <<>>]

\* one request and its response, taken in by the client
Exchange(request) ==
    LET response == ServeHTTP(request)
    IN  /\ requests' = Append(requests, request)
        /\ responses' = Append(responses, [status |-> response.status, page |-> response.page])
        /\ isFirstRequest' = response.isFirstRequest
        /\ IF response.status # 200
           THEN /\ listPc' = "failed"
                /\ listResult' = [err |-> "BackendQueryError", entities |-> <<>>]
                /\ UNCHANGED <<entities, nextPageKey>>
           ELSE LET page == pages[response.page]
                    accumulated == entities \o page.Entities
                IN  /\ entities' = accumulated
                    /\ nextPageKey' = page.NextPageKey
                    /\ IF page.NextPageKey = ""
                       THEN /\ listPc' = "done"
                            /\ listResult' = Reconcile(accumulated)
                       ELSE /\ listPc' = "paging"
                            /\ UNCHANGED listResult

InitEntities ==
    /\ pages \in PageChains
    /\ isFirstRequest = TRUE
    /\ listPc = "start"
    /\ nextPageKey = ""
    /\ entities = <<>>
    /\ requests = <<>>
    /\ responses = <<>>
    /\ listResult = [err |-> "", entities |-> <<>>]
    /\ IdleDashboards
    /\ IdleTiles
    /\ IdleHandler
    /\ IdleRest

\* the first call of the listing
ListFirstPage ==
    /\ listPc = "start"
    /\ Exchange(FirstRequest)
    /\ UNCHANGED pages
    /\ UNCHANGED exceptPageVars

\* a following call, while the previous page carried a NextPageKey
ListNextPage ==
    /\ listPc = "paging"
    /\ nextPageKey # ""
    /\ Exchange(CursorRequest(nextPageKey))
    /\ UNCHANGED pages
    /\ UNCHANGED exceptPageVars

NextEntities == ListFirstPage \/ ListNextPage

SpecEntities == InitEntities /\ [][NextEntities]_vars

\* the listing is a loop of blocking calls: it keeps taking its next step
FairSpecEntities == SpecEntities /\ WF_vars(NextEntities)

(***************************************************************************)
(* Properties of the paginated listing.                                    *)
(***************************************************************************)
\* the page received last
LastPage == pages[responses[Len(responses)].page]

\* the entities of the first n pages, in page order: they are numbered in
\* the order the chain serves them
EntitiesOfFirst(n) == [k \in 1..Sum([i \in 1..Len(pages) |-> pages[i].PageSize], n) |-> k]

\* C8: the first request carries no nextPageKey and the full selector
\* parameters; every following request carries the nextPageKey of the page
\* received just before and no entitySelector, fields or time range; no
\* request has both a cursor and a selector or fields parameter, and the
\* server's checks of this protocol accept every request.
C8_CursorRequestsCarryOnlyTheCursor ==
    /\ \A k \in 1..Len(responses) : responses[k].status = 200
    /\ \A k \in 1..Len(requests) :
          /\ k = 1 =>
                /\ requests[k].nextPageKey = ""
                /\ requests[k].entitySelector # ""
                /\ requests[k].fields # ""
          /\ k > 1 =>
                /\ requests[k].nextPageKey # ""
                /\ requests[k].nextPageKey = pages[responses[k - 1].page].NextPageKey
                /\ requests[k].entitySelector = ""
                /\ requests[k].fields = ""
                /\ requests[k].from = ""
                /\ requests[k].to = ""
          /\ ~(/\ requests[k].nextPageKey # ""
               /\ (requests[k].entitySelector # "" \/ requests[k].fields # ""))

\* a second request was sent with the cursor of the first page
C8_Witness ==
    /\ Len(requests) = 2
    /\ requests[2].nextPageKey = "next-page-key-1"
    /\ requests[2].entitySelector = ""
    /\ responses[2].status = 200

\* C9: for a backend that serves N pages the client sends exactly N requests,
\* the k-th one answered by page k, no page twice, and accumulates the pages'
\* entities in page order; when they account for the first page's TotalCount
\* the listing returns them all.
C9_OneRequestPerPageInOrder ==
    /\ Len(requests) = Len(responses)
    /\ Len(responses) <= Len(pages)
    /\ \A k \in 1..Len(responses) : responses[k].page = k
    /\ entities = EntitiesOfFirst(Len(responses))
    /\ listPc = "done" =>
          /\ Len(requests) = Len(pages)
          /\ entities = EntitiesOfFirst(Len(pages))
          /\ (pages[1].TotalCount = Len(EntitiesOfFirst(Len(pages))))
                => listResult = [err |-> "", entities |-> EntitiesOfFirst(Len(pages))]

\* TotalCount 3 served as pages of 2 and 1: two requests, three entities
C9_Witness ==
    /\ listPc = "done"
    /\ Len(pages) = 2
    /\ pages[1].TotalCount = 3
    /\ pages[1].PageSize = 2
    /\ pages[2].PageSize = 1
    /\ Len(requests) = 2
    /\ listResult = [err |-> "", entities |-> <<1, 2, 3>>]

\* C10: the listing goes on exactly while the page received last carries a
\* nextPageKey, sends nothing after a page without one, and completes for
\* every finite chain of pages.
C10_ListingStopsAtEmptyKeyAndCompletes ==
    /\ [](listPc = "paging" => (LastPage.NextPageKey # "" /\ ENABLED ListNextPage))
    /\ [](listPc = "done" => LastPage.NextPageKey = "")
    /\ [][requests' # requests =>
             (Len(responses) = 0 \/ LastPage.NextPageKey # "")]_vars
    /\ [][listPc = "done" => (requests' = requests /\ listPc' = "done")]_vars
    /\ <>(listPc = "done")

\* a chain of three pages was listed to its end
C10_Witness ==
    /\ listPc = "done"
    /\ Len(pages) = 3
    /\ Len(requests) = 3
    /\ LastPage.NextPageKey = ""

\* the number of entities the whole chain serves
EntitiesServed == Sum([i \in 1..Len(pages) |-> pages[i].PageSize], Len(pages))

\* C11: when the entities accumulated over all pages are not as many as the
\* first page's TotalCount, the listing ends in an error and hands out no
\* entities; a listing that ends without an error hands out exactly
\* TotalCount entities.
C11_UnreconciledCountIsAnError ==
    listPc = "done" =>
        /\ (Len(entities) # pages[1].TotalCount) =>
              /\ listResult.err = "PaginationProtocolError"
              /\ listResult.entities = <<>>
        /\ (listResult.err = "") =>
              /\ Len(listResult.entities) = pages[1].TotalCount
              /\ listResult.entities = entities

\* two pages were listed and their entities are one short of TotalCount
C11_Witness ==
    /\ listPc = "done"
    /\ Len(pages) = 2
    /\ Len(requests) = 2
    /\ EntitiesServed = 3
    /\ pages[1].TotalCount = 4
    /\ listResult.err = "PaginationProtocolError"

\* sub occurs in s
Contains(s, sub) ==
    \E i \in 1..(Len(s) - Len(sub) + 1) : SubSeq(s, i, i + Len(sub) - 1) = sub

\* the selector a call carried: its query without the parameter name
SelectorOf(call) == SubSeq(call.query, Len("securityProblemSelector=") + 1, Len(call.query))

\* C12: the selector of a tile with a management zone of its own is scoped by
\* that zone and the dashboard's zone does not occur in it; the selector of a
\* tile without one is scoped by the dashboard's zone; when neither names a
\* zone the selector is exactly status(OPEN); processing a tile leaves the
\* dashboard-level filter as it was.
C12_TileZoneReplacesDashboardZone ==
    /\ [](\A k \in 1..Len(calls) :
            LET tileZone == tiles[calls[k].tile].ManagementZone
                selector == SelectorOf(calls[k])
            IN  /\ tileZone # "" =>
                      /\ selector = "status(OPEN),managementZoneIds(" \o tileZone \o ")"
                      /\ (dashboardFilter # "" /\ dashboardFilter # tileZone)
                            => ~Contains(selector, dashboardFilter)
                /\ (tileZone = "" /\ dashboardFilter # "") =>
                      selector = "status(OPEN),managementZoneIds(" \o dashboardFilter \o ")"
                /\ (tileZone = "" /\ dashboardFilter = "") =>
                      selector = "status(OPEN)")
    /\ [][dashboardFilter' = dashboardFilter]_vars

\* under a dashboard zone, a tile with its own zone and a tile without one
C12_Witness ==
    /\ dashboardFilter = "mz-dashboard"
    /\ Len(calls) = 2
    /\ tiles[calls[1].tile].ManagementZone = "mz-tile"
    /\ tiles[calls[2].tile].ManagementZone = ""
    /\ SelectorOf(calls[1]) = "status(OPEN),managementZoneIds(mz-tile)"
    /\ SelectorOf(calls[2]) = "status(OPEN),managementZoneIds(mz-dashboard)"

\* the objective a tile name asks for, when it embeds a threshold
NameEmbeddedObjective(name) == ParsePassAndWarningWithoutDefaultsFrom(name)

\* the tile behind entry j of the report
TileOfEntry(j) == tiles[AnsweredCalls[j].tile]

\* C13 as stated: the objective of a security-problem tile whose name embeds
\* a threshold specification is the name-embedded one.
C13_NameEmbeddedObjectiveWins ==
    \A j \in 1..Len(report) :
        (j <= Len(AnsweredCalls) /\ EmbedsThreshold(TileOfEntry(j).Name)) =>
            report[j].objective = NameEmbeddedObjective(TileOfEntry(j).Name)

\* C13 amended: the security-problem tile processor does not consult the
\* tile's name; also for a tile whose name embeds a threshold specification
\* the indicator is named security_problems and the objective is the
\* processor default: pass <=0, no warning, key indicator.
C13_ProcessorDefaultIgnoresTheName ==
    \A j \in 1..Len(report) :
        (j <= Len(AnsweredCalls) /\ EmbedsThreshold(TileOfEntry(j).Name)) =>
            /\ report[j].sliName = "security_problems"
            /\ report[j].objective =
                  [ok |-> TRUE, SLI |-> "security_problems",
                   Pass |-> << [op |-> "<=", value |-> "0"] >>,
                   Warning |-> << >>, KeySLI |-> TRUE]
            /\ report[j].objective # NameEmbeddedObjective(TileOfEntry(j).Name)

\* a tile named sli=vulns;pass=<=5;key=false was processed and reported
C13_Witness ==
    /\ Len(report) = 1
    /\ Len(AnsweredCalls) = 1
    /\ TileOfEntry(1).Name = "sli=vulns;pass=<=5;key=false"
    /\ NameEmbeddedObjective(TileOfEntry(1).Name).ok
    /\ NameEmbeddedObjective(TileOfEntry(1).Name).Pass = << [op |-> "<=", value |-> "5"] >>
    /\ report[1].objective.Pass = << [op |-> "<=", value |-> "0"] >>

\* C14: no two indicators of one report carry the same name; two
\* security-problem tiles of one dashboard do not both yield an indicator
\* named security_problems.
C14_IndicatorNamesAreUnique ==
    \A i, j \in 1..Len(report) :
        i # j =>
            /\ report[i].sliName # report[j].sliName
            /\ report[i].sliResult.Metric # report[j].sliResult.Metric

(***************************************************************************)
(* Event handling: gotEvent, NewEventHandler and its collaborators.        *)
(***************************************************************************)
exceptHandlerVars == <<searchPc, searchImpl, searchResult, tileVars, pageVars,
                       selectorVars, resourceVars, credentialVars,
        monitoringVars>>

\* getEventAdapter's switch: the adapter built for each handled event type
AdapterOf ==
    [t \in { "sh.keptn.event.monitoring.configure",
             "sh.keptn.event.project.create.finished",
             "sh.keptn.events.problem",
             "sh.keptn.event.action.triggered",
             "sh.keptn.event.action.started",
             "sh.keptn.event.action.finished",
             "sh.keptn.event.get-sli.triggered",
             "sh.keptn.event.deployment.finished",
             "sh.keptn.event.test.triggered",
             "sh.keptn.event.test.finished",
             "sh.keptn.event.evaluation.finished",
             "sh.keptn.event.release.triggered" } |->
        CASE t = "sh.keptn.event.monitoring.configure" -> "ConfigureMonitoringAdapter"
          [] t = "sh.keptn.event.project.create.finished" -> "ProjectCreateFinishedAdapter"
          [] t = "sh.keptn.events.problem" -> "ProblemAdapter"
          [] t = "sh.keptn.event.action.triggered" -> "ActionTriggeredAdapter"
          [] t = "sh.keptn.event.action.started" -> "ActionStartedAdapter"
          [] t = "sh.keptn.event.action.finished" -> "ActionFinishedAdapter"
          [] t = "sh.keptn.event.get-sli.triggered" -> "GetSLITriggeredAdapter"
          [] t = "sh.keptn.event.deployment.finished" -> "DeploymentFinishedAdapter"
          [] t = "sh.keptn.event.test.triggered" -> "TestTriggeredAdapter"
          [] t = "sh.keptn.event.test.finished" -> "TestFinishedAdapter"
          [] t = "sh.keptn.event.evaluation.finished" -> "EvaluationFinishedAdapter"
          [] t = "sh.keptn.event.release.triggered" -> "ReleaseTriggeredAdapter"]

\* event types getEventAdapter answers with a nil adapter: release.finished
\* and one that has no case
IgnoredTypes == { "sh.keptn.event.release.finished", "sh.keptn.event.approval.triggered" }

\* getEventAdapter with release.finished handled like release.triggered
getEventAdapterHandlesReleaseFinished(e) ==
    IF e.type \in DOMAIN AdapterOf
    THEN IF e.adapterFails
         THEN [err |-> "could not parse event payload", adapter |-> "nil"]
         ELSE [err |-> "", adapter |-> AdapterOf[e.type]]
    ELSE IF e.type = "sh.keptn.event.release.finished"
    THEN [err |-> "", adapter |-> "ReleaseTriggeredAdapter"]
    ELSE [err |-> "", adapter |-> "nil"]

\* getEventAdapter: the error of the adapter's constructor, or the adapter
\* ("nil" for a type that is ignored)
getEventAdapter(e) ==
    IF e.type \in DOMAIN AdapterOf
    THEN IF e.adapterFails
         THEN [err |-> "could not parse event payload", adapter |-> "nil"]
         ELSE [err |-> "", adapter |-> AdapterOf[e.type]]
    ELSE [err |-> "", adapter |-> "nil"]

\* the DynatraceConfigFile used when the configuration cannot be loaded
DefaultConfig ==
    [SpecVersion |-> "0.1.0", DtCreds |-> "dynatrace", Dashboard |-> "",
     AttachRules |-> "nil"]

NilConfig == [SpecVersion |-> "", DtCreds |-> "", Dashboard |-> "", AttachRules |-> "nil"]

\* one entry of the record of lookups and client creations
Lookup(op, arg) == [op |-> op, arg |-> arg]

\* getDynatraceCredentialsAndConfig that gives up when the configuration
\* cannot be loaded
getDynatraceCredentialsAndConfigWithoutDefault(adapter, env) ==
    LET decorator == IF adapter = "GetSLITriggeredAdapter"
                     THEN "NewCredentialManagerSLIServiceFallbackDecorator"
                     ELSE "NewCredentialManagerDefaultFallbackDecorator"
        first == << Lookup("GetDynatraceConfig", ""), Lookup("NewCredentialManager", "") >>
        second == first \o << Lookup(decorator, ""),
                              Lookup("GetDynatraceCredentials", env.config.file.DtCreds) >>
    IN  IF env.config.err
        THEN [config |-> NilConfig, creds |-> "nil", secretName |-> "",
              err |-> "Failed to load Dynatrace config",
              lookups |-> << Lookup("GetDynatraceConfig", "") >>]
        ELSE IF env.cmFails
        THEN [config |-> NilConfig, creds |-> "nil", secretName |-> "",
              err |-> "could not initialize CredentialManager", lookups |-> first]
        ELSE IF env.credsFail
        THEN [config |-> NilConfig, creds |-> "nil", secretName |-> "",
              err |-> "Failed to load Dynatrace credentials", lookups |-> second]
        ELSE [config |-> env.config.file, creds |-> "creds",
              secretName |-> env.config.file.DtCreds, err |-> "", lookups |-> second]

\* getDynatraceCredentialsAndConfig: the configuration, the credentials, the
\* secret name and the error, with the lookups it performed
getDynatraceCredentialsAndConfig(adapter, env) ==
    LET dynatraceConfig == IF env.config.err THEN DefaultConfig ELSE env.config.file
        decorator == IF adapter = "GetSLITriggeredAdapter"
                     THEN "NewCredentialManagerSLIServiceFallbackDecorator"
                     ELSE "NewCredentialManagerDefaultFallbackDecorator"
        first == << Lookup("GetDynatraceConfig", ""), Lookup("NewCredentialManager", "") >>
        second == first \o << Lookup(decorator, ""),
                              Lookup("GetDynatraceCredentials", dynatraceConfig.DtCreds) >>
    IN  IF env.cmFails
        THEN [config |-> NilConfig, creds |-> "nil", secretName |-> "",
              err |-> "could not initialize CredentialManager", lookups |-> first]
        ELSE IF env.credsFail
        THEN [config |-> NilConfig, creds |-> "nil", secretName |-> "",
              err |-> "Failed to load Dynatrace credentials", lookups |-> second]
        ELSE [config |-> dynatraceConfig, creds |-> "creds",
              secretName |-> dynatraceConfig.DtCreds, err |-> "", lookups |-> second]

ErrorHandler(err) ==
    [kind |-> "ErrorHandler", err |-> err, dashboard |-> "", secretName |-> "",
     attachRules |-> "nil"]

NoOpHandler ==
    [kind |-> "NoOpHandler", err |-> "", dashboard |-> "", secretName |-> "",
     attachRules |-> "nil"]

\* the switch with the last two arguments of NewGetSLITriggeredHandler
\* exchanged
HandlerForSwapsArguments(adapter, dynatraceConfig, secretName) ==
    IF adapter = "GetSLITriggeredAdapter"
    THEN [kind |-> "GetSLITriggeredHandler", err |-> "", dashboard |-> secretName,
          secretName |-> dynatraceConfig.Dashboard, attachRules |-> "nil"]
    ELSE [kind |-> "OtherEventHandler", err |-> "", dashboard |-> "", secretName |-> "",
          attachRules |-> "nil"]

\* the handler NewEventHandler's switch builds for the adapter
HandlerFor(adapter, dynatraceConfig, secretName) ==
    LET plain(kind) == [kind |-> kind, err |-> "", dashboard |-> "", secretName |-> "",
                        attachRules |-> "nil"]
        withRules(kind) == [plain(kind) EXCEPT !.attachRules = dynatraceConfig.AttachRules]
    IN  CASE adapter = "ConfigureMonitoringAdapter" -> plain("ConfigureMonitoringEventHandler")
          [] adapter = "ProjectCreateFinishedAdapter" -> plain("ProjectCreateFinishedEventHandler")
          [] adapter = "ProblemAdapter" -> plain("ProblemEventHandler")
          [] adapter = "ActionTriggeredAdapter" -> withRules("ActionTriggeredEventHandler")
          [] adapter = "ActionStartedAdapter" -> plain("ActionStartedEventHandler")
          [] adapter = "ActionFinishedAdapter" -> withRules("ActionFinishedEventHandler")
          [] adapter = "GetSLITriggeredAdapter" ->
                [plain("GetSLITriggeredHandler") EXCEPT
                    !.dashboard = dynatraceConfig.Dashboard, !.secretName = secretName]
          [] adapter = "DeploymentFinishedAdapter" -> withRules("DeploymentFinishedEventHandler")
          [] adapter = "TestTriggeredAdapter" -> withRules("TestTriggeredEventHandler")
          [] adapter = "TestFinishedAdapter" -> withRules("TestFinishedEventHandler")
          [] adapter = "EvaluationFinishedAdapter" -> withRules("EvaluationFinishedEventHandler")
          [] adapter = "ReleaseTriggeredAdapter" -> withRules("ReleaseTriggeredEventHandler")
          [] OTHER -> ErrorHandler("this should not have happened, we are missing an implementation")

\* NewEventHandler that returns the error of getEventAdapter instead of an
\* ErrorHandler
NewEventHandlerReturnsTheError(e, env) ==
    LET created == << Lookup("NewDefaultResourceClient", ""),
                      Lookup("NewDynatraceConfigGetter", "") >>
        adapted == getEventAdapter(e)
        got == getDynatraceCredentialsAndConfig(adapted.adapter, env)
        clients == created \o got.lookups \o << Lookup("NewClient", got.creds),
                                                Lookup("NewDefaultClient", "") >>
        notCalled == [called |-> FALSE]
        returned == [called |-> TRUE, config |-> got.config, creds |-> got.creds,
                     secretName |-> got.secretName, err |-> got.err]
    IN  IF adapted.err # ""
        THEN [handler |-> [kind |-> ""], err |-> adapted.err, lookups |-> created,
              credentialsAndConfig |-> notCalled]
        ELSE IF adapted.adapter = "nil"
        THEN [handler |-> NoOpHandler, err |-> "", lookups |-> created,
              credentialsAndConfig |-> notCalled]
        ELSE IF got.err # ""
        THEN [handler |-> ErrorHandler(got.err), err |-> "",
              lookups |-> created \o got.lookups, credentialsAndConfig |-> returned]
        ELSE IF env.keptnClientFails
        THEN [handler |-> ErrorHandler("Could not get create Keptn client"), err |-> "",
              lookups |-> clients, credentialsAndConfig |-> returned]
        ELSE [handler |-> HandlerFor(adapted.adapter, got.config, got.secretName),
              err |-> "", lookups |-> clients, credentialsAndConfig |-> returned]

\* NewEventHandler: the handler, the error (always nil), and the lookups
\* and the constructions of getters and clients it performed, in order
NewEventHandler(e, env) ==
    LET created == << Lookup("NewDefaultResourceClient", ""),
                      Lookup("NewDynatraceConfigGetter", "") >>
        adapted == getEventAdapter(e)
        got == getDynatraceCredentialsAndConfig(adapted.adapter, env)
        clients == created \o got.lookups \o << Lookup("NewClient", got.creds),
                                                Lookup("NewDefaultClient", "") >>
        notCalled == [called |-> FALSE]
        returned == [called |-> TRUE, config |-> got.config, creds |-> got.creds,
                     secretName |-> got.secretName, err |-> got.err]
    IN  IF adapted.err # ""
        THEN [handler |-> ErrorHandler(adapted.err), err |-> "", lookups |-> created,
              credentialsAndConfig |-> notCalled]
        ELSE IF adapted.adapter = "nil"
        THEN [handler |-> NoOpHandler, err |-> "", lookups |-> created,
              credentialsAndConfig |-> notCalled]
        ELSE IF got.err # ""
        THEN [handler |-> ErrorHandler(got.err), err |-> "",
              lookups |-> created \o got.lookups, credentialsAndConfig |-> returned]
        ELSE IF env.keptnClientFails
        THEN [handler |-> ErrorHandler("Could not get create Keptn client"), err |-> "",
              lookups |-> clients, credentialsAndConfig |-> returned]
        ELSE [handler |-> HandlerFor(adapted.adapter, got.config, got.secretName),
              err |-> "", lookups |-> clients, credentialsAndConfig |-> returned]

\* the get-sli run's dashboard: the configured identifier when there is one,
\* else the one found by name
RetrieveDashboard(dashboardIdentifierOrEmpty, ds, keptnEvent) ==
    IF dashboardIdentifierOrEmpty # ""
    THEN [dashboard |-> dashboardIdentifierOrEmpty, matchingDone |-> FALSE]
    ELSE [dashboard |-> SearchForDashboardMatchingEvent(ds, keptnEvent),
          matchingDone |-> TRUE]

\* HandleEvent of the handler NewEventHandler returned
HandleEvent(h, ds, keptnEvent) ==
    CASE h.kind = "ErrorHandler" ->
            [err |-> h.err, dashboard |-> "", matchingDone |-> FALSE]
      [] h.kind = "GetSLITriggeredHandler" ->
            LET retrieved == RetrieveDashboard(h.dashboard, ds, keptnEvent)
            IN  [err |-> "", dashboard |-> retrieved.dashboard,
                 matchingDone |-> retrieved.matchingDone]
      [] OTHER -> [err |-> "", dashboard |-> "", matchingDone |-> FALSE]

\* the configurations the configuration getter can load
ConfigFiles ==
    { [SpecVersion |-> "0.1.0", DtCreds |-> c, Dashboard |-> d, AttachRules |-> a] :
        c \in {"dynatrace", "dynatrace-prod"},
        d \in {"", "311f4aa7-5257-41d7-abd1-70420500e1c8"},
        a \in {"nil", "rules"} }

Environments ==
    { [config |-> cfg, cmFails |-> cm, credsFail |-> cr, keptnClientFails |-> kc] :
        cfg \in { [err |-> TRUE, file |-> NilConfig] }
                   \cup { [err |-> FALSE, file |-> f] : f \in ConfigFiles },
        cm \in BOOLEAN, cr \in BOOLEAN, kc \in BOOLEAN }

Events ==
    { [type |-> t, adapterFails |-> f] : t \in DOMAIN AdapterOf, f \in BOOLEAN }
        \cup { [type |-> t, adapterFails |-> FALSE] : t \in IgnoredTypes }

\* the dashboards of the tenant during a run
RunDashboardLists ==
    { <<>>,
      << [ID |-> IdOf(1), Name |-> "KQG;project=shop;service=carts;stage=dev"] >>,
      << [ID |-> IdOf(1), Name |-> "KQG;project=shop;service=carts;stage=prod"],
         [ID |-> IdOf(2), Name |-> "kqg;stage=dev;project=shop;service=carts"] >> }

InitHandler ==
    /\ event \in Events
    /\ environment \in Environments
    /\ handlerPc = "received"
    /\ handler = [kind |-> ""]
    /\ lookups = <<>>
    /\ usedDashboard = ""
    /\ matchingDone = FALSE
    /\ gotEventResult = ""
    /\ gotEventCalls = [NewEventHandler |-> "", HandleEvent |-> <<>>]
    /\ credentialsAndConfig = [called |-> FALSE]
    /\ dashboards \in RunDashboardLists
    /\ project = "shop"
    /\ service = "carts"
    /\ stage \in Stages
    /\ searchPc = "off"
    /\ searchImpl = "none"
    /\ searchResult = ""
    /\ IdleTiles
    /\ IdlePages
    /\ IdleRest

\* gotEvent: NewEventHandler, then HandleEvent of the handler it returned
GotEvent ==
    /\ handlerPc = "received"
    /\ LET made == NewEventHandler(event, environment)
           run == HandleEvent(made.handler, dashboards,
                              [Project |-> project, Service |-> service, Stage |-> stage])
       IN  /\ handler' = made.handler
           /\ lookups' = made.lookups
           /\ credentialsAndConfig' = made.credentialsAndConfig
           /\ IF made.err # ""
              THEN /\ gotEventResult' = made.err
                   /\ gotEventCalls' = [NewEventHandler |-> made.err, HandleEvent |-> <<>>]
                   /\ UNCHANGED <<usedDashboard, matchingDone>>
              ELSE /\ gotEventResult' = run.err
                   /\ gotEventCalls' = [NewEventHandler |-> "", HandleEvent |-> <<run.err>>]
                   /\ usedDashboard' = run.dashboard
                   /\ matchingDone' = run.matchingDone
    /\ handlerPc' = "handled"
    /\ UNCHANGED <<event, environment, dashboards, project, service, stage>>
    /\ UNCHANGED exceptHandlerVars

NextHandler == GotEvent

SpecHandler == InitHandler /\ [][NextHandler]_vars

(***************************************************************************)
(* Properties of event handling.                                           *)
(***************************************************************************)
\* the dashboard identifier the loaded configuration names; none when the
\* configuration could not be loaded
ConfiguredDashboard ==
    IF environment.config.err THEN "" ELSE environment.config.file.Dashboard

\* C15: the get-sli handler is given the dashboard identifier of the
\* configuration; when one is configured the run uses it and does not search
\* by name; the run searches by name exactly when none is configured, which
\* includes the default configuration substituted for one that failed to
\* load.
C15_ConfiguredDashboardSkipsMatching ==
    handlerPc = "handled" =>
        /\ handler.kind = "GetSLITriggeredHandler" =>
              /\ handler.dashboard = ConfiguredDashboard
              /\ ConfiguredDashboard # "" =>
                    /\ usedDashboard = ConfiguredDashboard
                    /\ ~matchingDone
              /\ ConfiguredDashboard = "" =>
                    /\ matchingDone
                    /\ usedDashboard \in {""} \cup { dashboards[i].ID : i \in 1..Len(dashboards) }
        /\ matchingDone =>
              /\ handler.kind = "GetSLITriggeredHandler"
              /\ ConfiguredDashboard = ""

\* a dashboard is configured by identifier while another one matches by name
C15_Witness ==
    /\ handlerPc = "handled"
    /\ handler.kind = "GetSLITriggeredHandler"
    /\ ConfiguredDashboard = "311f4aa7-5257-41d7-abd1-70420500e1c8"
    /\ SearchForDashboardMatchingEvent(dashboards,
          [Project |-> project, Service |-> service, Stage |-> stage]) = "dashboard-1"
    /\ usedDashboard = "311f4aa7-5257-41d7-abd1-70420500e1c8"
    /\ ~matchingDone

\* the call the backend received for tile i
CallsOf(i) == SelectSeq(calls, LAMBDA c : c.tile = i)

\* the report entries of tile i
EntriesOf(i) ==
    { report[j] : j \in { k \in 1..Len(report) :
                            k <= Len(AnsweredCalls) /\ AnsweredCalls[k].tile = i } }

\* the dashboard lists the same tiles twice over
TilesRepeat ==
    /\ Len(tiles) > 0
    /\ Len(tiles) % 2 = 0
    /\ \A i \in 1..(Len(tiles) \div 2) : tiles[i + Len(tiles) \div 2] = tiles[i]

exceptSelectorVars == <<dashVars, pageVars, handlerVars, resourceVars, credentialVars,
        monitoringVars>>

MaxSelectors == 2

\* selectors: the ones Process builds, and ones that hold the separators and
\* the prefixes of the query string, or nothing
SelectorSet ==
    { "status(OPEN)",
      "status(OPEN),managementZoneIds(mz-tile)",
      "status(OPEN),managementZoneIds(mz-tile) ",
      "status(OPEN);",
      ";status(OPEN)",
      "securityProblemSelector=status(OPEN)",
      "SECPV2;securityProblemSelector=status(OPEN)",
      "riskLevel(HIGH),status(OPEN)",
      "=",
      "" }

SelectorLists == UNION { [1..n -> SelectorSet] : n \in 1..MaxSelectors }

InitSelectors ==
    /\ selectors \in SelectorLists
    /\ \E outcome \in Outcomes :
          backend = [q \in { ProblemQuery(selectors[k]) : k \in 1..Len(selectors) } |-> outcome]
    /\ startUnix = 100
    /\ endUnix = 160
    /\ tiles = <<>>
    /\ dashboardFilter = ""
    /\ tileIndex = 1
    /\ report = <<>>
    /\ skipped = {}
    /\ calls = <<>>
    /\ IdleDashboards
    /\ IdlePages
    /\ IdleHandler
    /\ IdleResources
    /\ IdleCredentials
    /\ IdleMonitoring

\* processProblemSelector is called with the next selector
ProcessSelector ==
    /\ tileIndex \in 1..Len(selectors)
    /\ LET out == processProblemSelector(selectors[tileIndex], startUnix, endUnix)
       IN  /\ calls' = calls \o [k \in 1..Len(out.calls) |->
                                    [tile |-> tileIndex,
                                     query |-> out.calls[k].query,
                                     from |-> out.calls[k].from,
                                     to |-> out.calls[k].to,
                                     outcome |-> out.calls[k].outcome]]
           /\ IF out.err
              THEN /\ report' = report
                   /\ skipped' = skipped \cup {tileIndex}
              ELSE /\ report' = Append(report, out.tileResult)
                   /\ skipped' = skipped
    /\ tileIndex' = tileIndex + 1
    /\ UNCHANGED <<selectors, tiles, dashboardFilter, startUnix, endUnix, backend>>
    /\ UNCHANGED exceptSelectorVars

NextSelectors == ProcessSelector

SpecSelectors == InitSelectors /\ [][NextSelectors]_vars

\* the selector read back from an emitted query string
RecoverSelector(sliQuery) ==
    SubSeq(sliQuery, Len("SECPV2;securityProblemSelector=") + 1, Len(sliQuery))

\* the selector entry j of the report was produced for
SelectorOfEntry(j) == selectors[AnsweredCalls[j].tile]

\* C17: for a non-empty selector the emitted query string is
\* SECPV2;securityProblemSelector=<selector>; the selector read back from it
\* is the one handed in and the one sent to the backend; different selectors
\* yield different query strings.
C17_QueryStringCarriesTheSelector ==
    /\ \A j \in 1..Len(report) :
          SelectorOfEntry(j) # "" =>
             /\ report[j].sliQuery = "SECPV2;securityProblemSelector=" \o SelectorOfEntry(j)
             /\ HasPrefix(report[j].sliQuery, "SECPV2;securityProblemSelector=")
             /\ RecoverSelector(report[j].sliQuery) = SelectorOfEntry(j)
             /\ AnsweredCalls[j].query = "securityProblemSelector=" \o RecoverSelector(report[j].sliQuery)
    /\ \A i, j \in 1..Len(report) :
          (SelectorOfEntry(i) # "" /\ SelectorOfEntry(j) # ""
              /\ SelectorOfEntry(i) # SelectorOfEntry(j))
             => report[i].sliQuery # report[j].sliQuery

\* two selectors that differ in their scoping were processed
C17_Witness ==
    /\ Len(report) = 2
    /\ SelectorOfEntry(1) = "status(OPEN)"
    /\ SelectorOfEntry(2) = "status(OPEN),managementZoneIds(mz-tile)"
    /\ report[1].sliQuery = "SECPV2;securityProblemSelector=status(OPEN)"
    /\ report[2].sliQuery = "SECPV2;securityProblemSelector=status(OPEN),managementZoneIds(mz-tile)"

(***************************************************************************)
(* ConfigResourceClient: the resource of a service, stage or project.      *)
(***************************************************************************)
exceptResourceVars == <<dashVars, tileVars, pageVars, handlerVars, selectorVars,
                        credentialVars,
        monitoringVars>>

Levels == {"service", "stage", "project"}

\* api.ResourceNotFoundError, the sentinel of the Keptn resource handler
ApiResourceNotFoundError ==
    [kind |-> "api.ResourceNotFoundError", uri |-> "", project |-> "", stage |-> "",
     service |-> "", message |-> ""]

NilError ==
    [kind |-> "nil", uri |-> "", project |-> "", stage |-> "", service |-> "",
     message |-> ""]

\* a ResourceError of the given kind
ResourceError(kind, uri, p, st, sv, message) ==
    [kind |-> kind, uri |-> uri, project |-> p, stage |-> st, service |-> sv,
     message |-> message]

\* errors.As(err, &rnfErrorType)
ErrorsAsResourceNotFound(err) == err.kind = "ResourceNotFoundError"

\* getResourceByFunc with every error of the handler taken as not found
getResourceByFuncAllNotFound(resource, uri, p, st, sv) ==
    IF resource.err # ""
    THEN [content |-> "", err |-> ResourceError("ResourceNotFoundError", uri, p, st, sv, "")]
    ELSE IF resource.ResourceContent = ""
    THEN [content |-> "", err |-> ResourceError("ResourceEmptyError", uri, p, st, sv, "")]
    ELSE [content |-> resource.ResourceContent, err |-> NilError]

\* getResourceByFunc: resource is what resFunc() returned, (uri, p, st, sv)
\* what the three error constructors put into their error
getResourceByFunc(resource, uri, p, st, sv) ==
    IF resource.err # ""
    THEN IF resource.err = "api.ResourceNotFoundError"
         THEN [content |-> "",
               err |-> ResourceError("ResourceNotFoundError", uri, p, st, sv, "")]
         ELSE [content |-> "",
               err |-> ResourceError("ResourceRetrievalFailedError", uri, p, st, sv,
                                     resource.err)]
    ELSE IF resource.ResourceContent = ""
    THEN [content |-> "", err |-> ResourceError("ResourceEmptyError", uri, p, st, sv, "")]
    ELSE [content |-> resource.ResourceContent, err |-> NilError]

GetServiceResource(p, st, sv, uri) == getResourceByFunc(resources["service"], uri, p, st, sv)

GetStageResource(p, st, uri) == getResourceByFunc(resources["stage"], uri, p, st, "")

GetProjectResource(p, uri) == getResourceByFunc(resources["project"], uri, p, "", "")

\* the guard of the service level without the stage
ServiceLevelAppliesWithoutStage(p, st, sv) == p # "" /\ sv # ""

\* the guards of the three levels
ServiceLevelApplies(p, st, sv) == p # "" /\ st # "" /\ sv # ""

StageLevelApplies(p, st) == p # "" /\ st # ""

ProjectLevelApplies(p) == p # ""

\* GetResource: the content, the error and the levels asked, in order
GetResource(p, st, sv, uri) ==
    LET return(content, err, asked) == [content |-> content, err |-> err, consulted |-> asked]
        notFound(asked) ==
            return("", ResourceError("ResourceNotFoundError", uri, p, st, sv, ""), asked)
        projectLevel(asked) ==
            IF ProjectLevelApplies(p)
            THEN LET got == GetProjectResource(p, uri)
                     now == Append(asked, "project")
                 IN  IF got.err = ApiResourceNotFoundError THEN notFound(now)
                     ELSE IF got.err # NilError THEN return("", got.err, now)
                     ELSE return(got.content, NilError, now)
            ELSE notFound(asked)
        stageLevel(asked) ==
            IF StageLevelApplies(p, st)
            THEN LET got == GetStageResource(p, st, uri)
                     now == Append(asked, "stage")
                 IN  IF ErrorsAsResourceNotFound(got.err) THEN projectLevel(now)
                     ELSE IF got.err # NilError THEN return("", got.err, now)
                     ELSE return(got.content, NilError, now)
            ELSE projectLevel(asked)
    IN  IF ServiceLevelApplies(p, st, sv)
        THEN LET got == GetServiceResource(p, st, sv, uri)
                 now == <<"service">>
             IN  IF ErrorsAsResourceNotFound(got.err) THEN stageLevel(now)
                 ELSE IF got.err # NilError THEN return("", got.err, now)
                 ELSE return(got.content, NilError, now)
        ELSE stageLevel(<<>>)

\* what the resource handler answers at one level: not found, another error,
\* an empty resource, or the level's content
HandlerAnswers(level) ==
    { [err |-> "api.ResourceNotFoundError", ResourceContent |-> ""],
      [err |-> "connection refused", ResourceContent |-> ""],
      [err |-> "", ResourceContent |-> ""],
      [err |-> "", ResourceContent |-> level \o "-level dynatrace.conf.yaml"] }

ResourceStores ==
    { [service |-> sv, stage |-> st, project |-> p] :
        sv \in HandlerAnswers("service"), st \in HandlerAnswers("stage"),
        p \in HandlerAnswers("project") }

ResourceArguments ==
    { [project |-> p, stage |-> st, service |-> sv,
       resourceURI |-> "dynatrace/dynatrace.conf.yaml"] :
        p \in {"", "shop"}, st \in {"", "dev"}, sv \in {"", "carts"} }

InitResources ==
    /\ resources \in ResourceStores
    /\ resourceArgs \in ResourceArguments
    /\ resourcePc = "called"
    /\ consulted = <<>>
    /\ resourceResult = [content |-> "", err |-> [kind |-> "nil"]]
    /\ IdleDashboards
    /\ IdleTiles
    /\ IdlePages
    /\ IdleHandler
    /\ IdleSelectors
    /\ IdleCredentials
    /\ IdleMonitoring

\* one call of ConfigResourceClient.GetResource
GetResourceCall ==
    /\ resourcePc = "called"
    /\ LET got == GetResource(resourceArgs.project, resourceArgs.stage,
                              resourceArgs.service, resourceArgs.resourceURI)
       IN  /\ consulted' = got.consulted
           /\ resourceResult' = [content |-> got.content, err |-> got.err]
    /\ resourcePc' = "returned"
    /\ UNCHANGED <<resources, resourceArgs>>
    /\ UNCHANGED exceptResourceVars

NextResources == GetResourceCall

SpecResources == InitResources /\ [][NextResources]_vars

(***************************************************************************)
(* Properties of the resource lookup, stated on the arguments and on what  *)
(* the configuration service holds.                                        *)
(***************************************************************************)
\* the levels that apply to the arguments, highest first
ApplicableLevels ==
    SelectSeq(<<"service", "stage", "project">>,
              LAMBDA l :
                 CASE l = "service" -> /\ resourceArgs.project # ""
                                       /\ resourceArgs.stage # ""
                                       /\ resourceArgs.service # ""
                   [] l = "stage" -> resourceArgs.project # "" /\ resourceArgs.stage # ""
                   [] l = "project" -> resourceArgs.project # "")

\* what a level holds: "notfound", "failed", "empty" or "found"
OutcomeAt(level) ==
    IF resources[level].err = "api.ResourceNotFoundError" THEN "notfound"
    ELSE IF resources[level].err # "" THEN "failed"
    ELSE IF resources[level].ResourceContent = "" THEN "empty"
    ELSE "found"

\* C18: the levels are asked in the order service, stage, project; a level is
\* asked only after every applicable level above it reported not found; the
\* first level that reports anything else ends the lookup: its content is
\* returned, or its retrieval error or empty-resource error; the lookup goes
\* through all applicable levels only when each reports not found.
C18_ChainStopsAtFirstOutcomeOtherThanNotFound ==
    resourcePc = "returned" =>
        /\ Len(consulted) <= Len(ApplicableLevels)
        /\ \A k \in 1..Len(consulted) : consulted[k] = ApplicableLevels[k]
        /\ \A k \in 1..(Len(consulted) - 1) : OutcomeAt(consulted[k]) = "notfound"
        /\ (Len(consulted) < Len(ApplicableLevels)) =>
              OutcomeAt(consulted[Len(consulted)]) # "notfound"
        /\ \A k \in 1..Len(consulted) :
              k = Len(consulted) =>
                 /\ OutcomeAt(consulted[k]) = "found" =>
                       /\ resourceResult.content = resources[consulted[k]].ResourceContent
                       /\ resourceResult.err.kind = "nil"
                 /\ OutcomeAt(consulted[k]) = "failed" =>
                       /\ resourceResult.content = ""
                       /\ resourceResult.err.kind = "ResourceRetrievalFailedError"
                 /\ OutcomeAt(consulted[k]) = "empty" =>
                       /\ resourceResult.content = ""
                       /\ resourceResult.err.kind = "ResourceEmptyError"
                 /\ OutcomeAt(consulted[k]) = "notfound" =>
                       /\ resourceResult.content = ""
                       /\ resourceResult.err.kind = "ResourceNotFoundError"

\* not found for the service, a retrieval error for the stage, content for
\* the project: the stage's error is returned and the project is not asked
C18_Witness ==
    /\ resourcePc = "returned"
    /\ ApplicableLevels = <<"service", "stage", "project">>
    /\ OutcomeAt("service") = "notfound"
    /\ OutcomeAt("stage") = "failed"
    /\ OutcomeAt("project") = "found"
    /\ consulted = <<"service", "stage">>
    /\ resourceResult.err.kind = "ResourceRetrievalFailedError"

\* C19: the service level is asked exactly when project, stage and service
\* are non-empty, the stage level only when project and stage are, the
\* project level only when project is; the content of the highest applicable
\* level that has content is preferred: service before stage, stage before
\* project.
C19_FirstInstanceOfTheResource ==
    resourcePc = "returned" =>
        /\ (\E k \in 1..Len(consulted) : consulted[k] = "service") <=>
              (resourceArgs.project # "" /\ resourceArgs.stage # "" /\ resourceArgs.service # "")
        /\ (\E k \in 1..Len(consulted) : consulted[k] = "stage") =>
              (resourceArgs.project # "" /\ resourceArgs.stage # "")
        /\ (\E k \in 1..Len(consulted) : consulted[k] = "project") =>
              resourceArgs.project # ""
        /\ (Len(ApplicableLevels) >= 2
              /\ \A k \in 1..Len(ApplicableLevels) : OutcomeAt(ApplicableLevels[k]) = "found") =>
                 /\ resourceResult.content = resources[ApplicableLevels[1]].ResourceContent
                 /\ resourceResult.err.kind = "nil"
                 /\ consulted = << ApplicableLevels[1] >>
        /\ (ApplicableLevels = <<"service", "stage", "project">>
              /\ OutcomeAt("service") = "notfound"
              /\ OutcomeAt("stage") = "found" /\ OutcomeAt("project") = "found") =>
                 resourceResult.content = resources["stage"].ResourceContent

\* content at all three levels: the service's is returned
C19_Witness ==
    /\ resourcePc = "returned"
    /\ ApplicableLevels = <<"service", "stage", "project">>
    /\ \A l \in Levels : OutcomeAt(l) = "found"
    /\ resourceResult.content = "service-level dynatrace.conf.yaml"
    /\ consulted = <<"service">>

(***************************************************************************)
(* Credentials: CredentialManager.GetDynatraceCredentials.                 *)
(***************************************************************************)
exceptCredentialVars == <<dashVars, tileVars, pageVars, handlerVars, selectorVars,
                          resourceVars,
        monitoringVars>>

HasSuffix(s, suffix) ==
    /\ Len(s) >= Len(suffix)
    /\ SubSeq(s, Len(s) - Len(suffix) + 1, Len(s)) = suffix

\* strings.TrimPrefix and strings.TrimSuffix: one occurrence is removed
TrimPrefix(s, prefix) ==
    IF HasPrefix(s, prefix) THEN SubSeq(s, Len(prefix) + 1, Len(s)) ELSE s

TrimSuffix(s, suffix) ==
    IF HasSuffix(s, suffix) THEN SubSeq(s, 1, Len(s) - Len(suffix)) ELSE s

RECURSIVE TrimLeft(_, _)
\* strings.TrimLeft for a cutset of one character
TrimLeft(s, c) ==
    IF Len(s) > 0 /\ CharAt(s, 1) = c THEN TrimLeft(SubSeq(s, 2, Len(s)), c) ELSE s

RECURSIVE TrimRight(_, _)
\* strings.TrimRight for a cutset of one character
TrimRight(s, c) ==
    IF Len(s) > 0 /\ CharAt(s, Len(s)) = c THEN TrimRight(SubSeq(s, 1, Len(s) - 1), c) ELSE s

\* strings.Trim for a cutset of one character: every leading and trailing one
Trim(s, c) == TrimRight(TrimLeft(s, c), c)

\* getCleanURL that puts https:// in front of whatever is not http://
getCleanURLKeepsPrefix(url) ==
    LET trimmed == TrimSuffix(Trim(url, "\n"), "/")
    IN  IF ~HasPrefix(trimmed, "http://")
        THEN "https://" \o trimmed
        ELSE trimmed

\* getCleanURL
getCleanURL(url) ==
    LET trimmed == TrimSuffix(Trim(url, "\n"), "/")
    IN  IF ~HasPrefix(trimmed, "http://")
        THEN "https://" \o TrimPrefix(trimmed, "https://")
        ELSE trimmed

\* getCleanToken
getCleanToken(token) == Trim(token, "\n")

\* SecretReader.ReadSecret: an absent or empty value is an error
ReadSecret(secretKey) ==
    IF secrets[secretKey] = ""
    THEN [value |-> "", err |-> "secret not found"]
    ELSE [value |-> secrets[secretKey], err |-> ""]

NilCredentials(err) == [nil |-> TRUE, Tenant |-> "", ApiToken |-> "", err |-> err]

\* CredentialManager.GetDynatraceCredentials
GetDynatraceCredentials(secretName) ==
    LET dtTenant == ReadSecret("DT_TENANT")
        dtAPIToken == ReadSecret("DT_API_TOKEN")
    IN  IF dtTenant.err # ""
        THEN NilCredentials("key DT_TENANT was not found in secret \"" \o secretName \o "\"")
        ELSE IF dtAPIToken.err # ""
        THEN NilCredentials("key DT_API_TOKEN was not found in secret \"" \o secretName \o "\"")
        ELSE [nil |-> FALSE, Tenant |-> getCleanURL(dtTenant.value),
              ApiToken |-> getCleanToken(dtAPIToken.value), err |-> ""]

\* stored values of DT_TENANT: with and without a scheme, with new lines and
\* slashes around them, and degenerate ones
StoredTenants ==
    { "", "abc.live", "abc.live/", "abc.live//", "abc.live\n", "\nabc.live\n",
      "abc.live/\n", "abc.live\n/", "\n\nabc.live/\n\n",
      "https://abc.live", "https://abc.live/", "\nhttps://abc.live\n",
      "http://abc.live", "http://abc.live/", "\nhttp://abc.live/\n", "http://abc.live\n/",
      "HTTP://abc.live", "HTTPS://abc.live", "ftp://abc.live", "https:/abc.live",
      "https://https://abc.live", "https://http://abc.live", "http://https://abc.live",
      "https://", "http://", "/", "\n", "//", "http:/", "http:///" }

StoredTokens == { "", "dt0c01.ST2EY72KQIN", "dt0c01.ST2EY72KQIN\n", "\n" }

InitCredentials ==
    /\ secrets \in { [DT_TENANT |-> tenant, DT_API_TOKEN |-> token] :
                        tenant \in StoredTenants, token \in StoredTokens }
    /\ credentialsPc = "called"
    /\ credentials = [nil |-> TRUE]
    /\ IdleDashboards
    /\ IdleTiles
    /\ IdlePages
    /\ IdleHandler
    /\ IdleSelectors
    /\ IdleResources
    /\ IdleMonitoring

\* one call of GetDynatraceCredentials for the secret "dynatrace"
GetDynatraceCredentialsCall ==
    /\ credentialsPc = "called"
    /\ credentials' = GetDynatraceCredentials("dynatrace")
    /\ credentialsPc' = "returned"
    /\ UNCHANGED secrets
    /\ UNCHANGED exceptCredentialVars

NextCredentials == GetDynatraceCredentialsCall

SpecCredentials == InitCredentials /\ [][NextCredentials]_vars

(***************************************************************************)
(* Properties of the credentials.                                          *)
(***************************************************************************)
\* credentials were returned
CredentialsReturned == credentialsPc = "returned" /\ ~credentials.nil

\* C20: the tenant of returned credentials starts with https:// or
\* http://; every stored value that starts with http:// keeps it; the tenant
\* never starts with https://https://.
C20_TenantHasOneScheme ==
    CredentialsReturned =>
        /\ (HasPrefix(credentials.Tenant, "https://") \/ HasPrefix(credentials.Tenant, "http://"))
        /\ HasPrefix(secrets.DT_TENANT, "http://") => HasPrefix(credentials.Tenant, "http://")
        /\ ~HasPrefix(credentials.Tenant, "https://https://")

\* C20, the part that holds for every stored value: the tenant of returned
\* credentials starts with https:// or http://; a stored value that starts with http:// followed by a character
\* other than a new line keeps it; a stored value that starts with neither
\* scheme gets https:// in front; a stored https:// is not doubled: the tenant
\* starts with https://https:// only when the stored value itself holds
\* https://https://.
C20_TenantStartsWithAScheme ==
    CredentialsReturned =>
        /\ (HasPrefix(credentials.Tenant, "https://") \/ HasPrefix(credentials.Tenant, "http://"))
        /\ (/\ HasPrefix(secrets.DT_TENANT, "http://")
            /\ Len(secrets.DT_TENANT) > Len("http://")
            /\ CharAt(secrets.DT_TENANT, Len("http://") + 1) # "\n") =>
              HasPrefix(credentials.Tenant, "http://")
        /\ (/\ ~HasPrefix(secrets.DT_TENANT, "http://")
            /\ ~HasPrefix(secrets.DT_TENANT, "https://")
            /\ ~HasPrefix(secrets.DT_TENANT, "\n")) =>
              /\ HasPrefix(credentials.Tenant, "https://")
              /\ HasPrefix(secrets.DT_TENANT, TrimPrefix(credentials.Tenant, "https://"))
        /\ HasPrefix(credentials.Tenant, "https://https://") =>
              Contains(secrets.DT_TENANT, "https://https://")

\* a stored https:// value came back with a single https://
C20_Witness ==
    /\ CredentialsReturned
    /\ secrets.DT_TENANT = "https://abc.live/"
    /\ credentials.Tenant = "https://abc.live"

\* C21: getCleanURL trims new lines and trailing slashes: the tenant of
\* returned credentials neither begins nor ends with a new line, does not end
\* with a slash, and getCleanURL applied to it returns it unchanged.
C21_CleanURLIsTrimmedAndIdempotent ==
    CredentialsReturned =>
        /\ credentials.Tenant = getCleanURL(secrets.DT_TENANT)
        /\ ~HasPrefix(credentials.Tenant, "\n")
        /\ ~HasSuffix(credentials.Tenant, "\n")
        /\ ~HasSuffix(credentials.Tenant, "/")
        /\ getCleanURL(credentials.Tenant) = credentials.Tenant

\* C23: when every applicable level reports not found, GetResource returns
\* a ResourceNotFoundError that carries the requested uri, project, stage and
\* service; a not found of the project level is treated like one of the
\* service or stage level and is not returned as the project level's own error.
C23_NotFoundCarriesTheRequestedLocation ==
    (/\ resourcePc = "returned"
     /\ \A k \in 1..Len(ApplicableLevels) : OutcomeAt(ApplicableLevels[k]) = "notfound") =>
        /\ resourceResult.content = ""
        /\ resourceResult.err =
              ResourceError("ResourceNotFoundError", resourceArgs.resourceURI,
                            resourceArgs.project, resourceArgs.stage,
                            resourceArgs.service, "")

(***************************************************************************)
(* ConfigureMonitoringEventHandler: HandleEvent and configureMonitoring.   *)
(***************************************************************************)
exceptMonitoringVars == <<dashVars, tileVars, pageVars, handlerVars, selectorVars,
                          resourceVars, credentialVars>>

\* fmt.Sprintf("%v", b) for a bool
FormatBool(b) == IF b THEN "true" ELSE "false"

RECURSIVE ResultLines(_, _)
\* the loop over the results of one kind of entity: one line per entity
ResultLines(results, k) ==
    IF k > Len(results) THEN ""
    ELSE (IF results[k].Success
          THEN "  - " \o results[k].Name \o ": Created successfully \n"
          ELSE "  - " \o results[k].Name \o ": Error: " \o results[k].Message \o "\n")
         \o ResultLines(results, k + 1)

\* getConfigureMonitoringResultMessage
getConfigureMonitoringResultMessage(apiCheck, configured) ==
    IF configured.nil THEN ""
    ELSE LET msg0 == "Dynatrace monitoring setup done.\nThe following entities have been configured:\n\n"
             msg1 == IF configured.ManagementZonesEnabled /\ Len(configured.ManagementZones) > 0
                     THEN msg0 \o "---Management Zones:--- \n"
                               \o ResultLines(configured.ManagementZones, 1) \o "\n\n"
                     ELSE msg0
             msg2 == IF configured.TaggingRulesEnabled /\ Len(configured.TaggingRules) > 0
                     THEN msg1 \o "---Automatic Tagging Rules:--- \n"
                               \o ResultLines(configured.TaggingRules, 1) \o "\n\n"
                     ELSE msg1
             msg3 == IF configured.ProblemNotificationsEnabled
                     THEN msg2 \o "---Problem Notification:--- \n"
                               \o "  - " \o configured.ProblemNotifications.Message \o "\n\n"
                     ELSE msg2
             msg4 == IF configured.MetricEventsEnabled /\ Len(configured.MetricEvents) > 0
                     THEN msg3 \o "---Metric Events:--- \n"
                               \o ResultLines(configured.MetricEvents, 1) \o "\n\n"
                     ELSE msg3
             msg5 == IF configured.DashboardEnabled /\ configured.Dashboard.Message # ""
                     THEN msg4 \o "---Dashboard:--- \n"
                               \o "  - " \o configured.Dashboard.Message \o "\n\n"
                     ELSE msg4
         IN  IF ~apiCheck.nil
             THEN msg5 \o "---Keptn API Connection Check:--- \n"
                       \o "  - Keptn API URL: " \o apiCheck.APIURL \o "\n"
                       \o "  - Connection Successful: "
                       \o FormatBool(apiCheck.ConnectionSuccessful) \o ". "
                       \o apiCheck.Message \o "\n" \o "\n"
             ELSE msg5

\* sendConfigureMonitoringFinishedEvent: the event handed to SendCloudEvent
\* and the error returned
sendConfigureMonitoringFinishedEvent(env, adapter, status, result, message) ==
    [event |-> [type |-> "configure-monitoring.finished", source |-> "dynatrace-service",
                Project |-> adapter.project, Service |-> adapter.service,
                Status |-> status, Result |-> result, Message |-> message],
     err |-> IF env.SendCloudEvent # ""
             THEN "could not send configure-monitoring.finished event: " \o env.SendCloudEvent
             ELSE ""]

\* handleError that does not send the finished event
handleErrorWithoutEvent(env, adapter, msg) ==
    [sent |-> <<>>, calls |-> <<>>, err |-> msg]

\* handleError: the events sent, the collaborators called, the error returned
handleError(env, adapter, msg) ==
    LET sending == sendConfigureMonitoringFinishedEvent(env, adapter, "StatusErrored",
                                                        "ResultFailed", msg)
    IN  [sent |-> <<sending.event>>, calls |-> <<"SendCloudEvent">>, err |-> msg]

\* the KeptnAPIConnectionCheck after the credentials and the connection
\* were looked at
KeptnAPICheck(env) ==
    IF env.GetKeptnCredentials.err # ""
    THEN [nil |-> FALSE, APIURL |-> "unknown", ConnectionSuccessful |-> FALSE,
          Message |-> "Failed to get Keptn API Credentials"]
    ELSE IF env.CheckKeptnConnection # ""
    THEN [nil |-> FALSE, APIURL |-> env.GetKeptnCredentials.APIURL,
          ConnectionSuccessful |-> FALSE,
          Message |-> "Warning: Keptn API connection cannot be verified. This might be due to a no-loopback policy of your LoadBalancer. The endpoint might still be reachable from outside the cluster."]
    ELSE [nil |-> FALSE, APIURL |-> env.GetKeptnCredentials.APIURL,
          ConnectionSuccessful |-> TRUE, Message |-> ""]

\* the guard of the shipyard retrieval
ShipyardIsFetched(adapter) == adapter.project # ""


\* configureMonitoring: the error returned, the finished events handed to
\* SendCloudEvent and the collaborators called, in order
configureMonitoring(adapter, env) ==
    LET return(err, sent, called) == [err |-> err, sent |-> sent, calls |-> called]
        keptnAPICheck == KeptnAPICheck(env)
        checked == <<"IsNotForDynatrace", "GetKeptnCredentials">>
                   \o (IF env.GetKeptnCredentials.err # "" THEN <<>>
                       ELSE <<"CheckKeptnConnection">>)
                   \o <<"NewKeptn">>
    IN  IF adapter.notForDynatrace
        THEN return("", <<>>, <<"IsNotForDynatrace">>)
        ELSE IF env.NewKeptn # ""
        THEN return("could not create Keptn handler: " \o env.NewKeptn, <<>>, checked)
        ELSE IF ShipyardIsFetched(adapter) /\ env.GetShipyard # ""
        THEN LET failed == handleError(env, adapter,
                               "failed to retrieve shipyard for project "
                               \o adapter.project \o ": " \o env.GetShipyard)
             IN  return(failed.err, failed.sent,
                        checked \o <<"GetShipyard">> \o failed.calls)
        ELSE LET fetched == checked
                            \o (IF ShipyardIsFetched(adapter) THEN <<"GetShipyard">>
                                ELSE <<>>)
                            \o <<"ConfigureMonitoring">>
             IN  IF env.ConfigureMonitoring.err # ""
                 THEN LET failed == handleError(env, adapter, env.ConfigureMonitoring.err)
                      IN  return(failed.err, failed.sent, fetched \o failed.calls)
                 ELSE LET sending ==
                              sendConfigureMonitoringFinishedEvent(
                                  env, adapter, "StatusSucceeded", "ResultPass",
                                  getConfigureMonitoringResultMessage(
                                      keptnAPICheck, env.ConfigureMonitoring.configured))
                      IN  return("", <<sending.event>>, fetched \o <<"SendCloudEvent">>)

\* HandleEvent that hands the error of configureMonitoring to its caller
HandleMonitoringEventReturnsTheError(adapter, env) ==
    LET done == configureMonitoring(adapter, env)
    IN  [err |-> done.err, configureMonitoring |-> done]

\* ConfigureMonitoringEventHandler.HandleEvent: configureMonitoring's error
\* is logged, nil is returned
HandleMonitoringEvent(adapter, env) ==
    LET done == configureMonitoring(adapter, env)
    IN  [err |-> "", configureMonitoring |-> done]

\* what Configuration.ConfigureMonitoring may hand back: an error, no
\* entities, entities with nothing enabled, entities of several kinds
NilConfiguredEntities == [nil |-> TRUE]

NoConfiguredEntities ==
    [nil |-> FALSE,
     ManagementZonesEnabled |-> FALSE, ManagementZones |-> <<>>,
     TaggingRulesEnabled |-> FALSE, TaggingRules |-> <<>>,
     ProblemNotificationsEnabled |-> FALSE, ProblemNotifications |-> [Message |-> ""],
     MetricEventsEnabled |-> FALSE, MetricEvents |-> <<>>,
     DashboardEnabled |-> FALSE, Dashboard |-> [Message |-> ""]]

SomeConfiguredEntities ==
    [nil |-> FALSE,
     ManagementZonesEnabled |-> TRUE,
     ManagementZones |-> << [Name |-> "Keptn: shop dev", Success |-> TRUE, Message |-> ""],
                            [Name |-> "Keptn: shop", Success |-> FALSE,
                             Message |-> "already exists"] >>,
     TaggingRulesEnabled |-> TRUE, TaggingRules |-> <<>>,
     ProblemNotificationsEnabled |-> TRUE,
     ProblemNotifications |-> [Message |-> "Successfully set up Keptn Alerting Profile"],
     MetricEventsEnabled |-> FALSE,
     MetricEvents |-> << [Name |-> "response_time_p90", Success |-> TRUE, Message |-> ""] >>,
     DashboardEnabled |-> TRUE, Dashboard |-> [Message |-> "Dashboard created"]]

MonitoringEnvironments ==
    [ GetKeptnCredentials :
          { [err |-> "", APIURL |-> "https://keptn.api"],
            [err |-> "key KEPTN_API_URL was not found in secret \"dynatrace\" or environment variables",
             APIURL |-> ""] },
      CheckKeptnConnection : { "", "invalid Keptn API Token" },
      NewKeptn : { "", "cannot parse event data" },
      GetShipyard : { "", "shipyard not found" },
      ConfigureMonitoring :
          { [err |-> "could not create management zone", configured |-> NilConfiguredEntities],
            [err |-> "", configured |-> NilConfiguredEntities],
            [err |-> "", configured |-> NoConfiguredEntities],
            [err |-> "", configured |-> SomeConfiguredEntities] },
      SendCloudEvent : { "", "connection refused" } ]

MonitoringEvents ==
    [ notForDynatrace : BOOLEAN, project : {"", "shop"}, service : {"", "carts"} ]

InitMonitoring ==
    /\ monitoringEvent \in MonitoringEvents
    /\ monitoringEnv \in MonitoringEnvironments
    /\ monitoringPc = "called"
    /\ monitoringCalls = <<>>
    /\ sentEvents = <<>>
    /\ monitoringResult = [HandleEvent |-> "", configureMonitoring |-> ""]
    /\ IdleDashboards
    /\ IdleTiles
    /\ IdlePages
    /\ IdleHandler
    /\ IdleSelectors
    /\ IdleResources
    /\ IdleCredentials

\* one call of ConfigureMonitoringEventHandler.HandleEvent
HandleMonitoringEventCall ==
    /\ monitoringPc = "called"
    /\ LET handled == HandleMonitoringEvent(monitoringEvent, monitoringEnv)
       IN  /\ monitoringCalls' = handled.configureMonitoring.calls
           /\ sentEvents' = handled.configureMonitoring.sent
           /\ monitoringResult' = [HandleEvent |-> handled.err,
                                   configureMonitoring |-> handled.configureMonitoring.err]
    /\ monitoringPc' = "returned"
    /\ UNCHANGED <<monitoringEvent, monitoringEnv>>
    /\ UNCHANGED exceptMonitoringVars

NextMonitoring == HandleMonitoringEventCall

SpecMonitoring == InitMonitoring /\ [][NextMonitoring]_vars


(***************************************************************************)
(* Properties of configure-monitoring, stated on the event and on what the *)
(* collaborators answer.                                                   *)
(***************************************************************************)
\* the collaborator was called
MonitoringCalled(name) == \E k \in 1..Len(monitoringCalls) : monitoringCalls[k] = name

\* the event is for Dynatrace and the Keptn handler was created
MonitoringStarted == ~monitoringEvent.notForDynatrace /\ monitoringEnv.NewKeptn = ""

\* the shipyard of a named project could not be retrieved
ShipyardFailed == monitoringEvent.project # "" /\ monitoringEnv.GetShipyard # ""

\* C24: one HandleEvent call hands at most one finished event to
\* SendCloudEvent, never a succeeded and a failed one: exactly one with status
\* succeeded and result pass when the configuration succeeds, exactly one
\* with status errored and result failed when the shipyard retrieval or
\* ConfigureMonitoring fails, none when the event is not for Dynatrace or the
\* Keptn handler cannot be created; the shipyard is fetched only when the
\* event's project is not empty.
C24_AtMostOneFinishedEvent ==
    monitoringPc = "returned" =>
        /\ Len(sentEvents) <= 1
        /\ (MonitoringStarted /\ ~ShipyardFailed /\ monitoringEnv.ConfigureMonitoring.err = "") =>
              /\ Len(sentEvents) = 1
              /\ sentEvents[1].Status = "StatusSucceeded"
              /\ sentEvents[1].Result = "ResultPass"
        /\ (MonitoringStarted /\ (ShipyardFailed \/ monitoringEnv.ConfigureMonitoring.err # "")) =>
              /\ Len(sentEvents) = 1
              /\ sentEvents[1].Status = "StatusErrored"
              /\ sentEvents[1].Result = "ResultFailed"
        /\ ~MonitoringStarted => sentEvents = <<>>
        /\ MonitoringCalled("GetShipyard") => monitoringEvent.project # ""
        /\ MonitoringCalled("SendCloudEvent") <=> Len(sentEvents) = 1
        /\ \A k \in 1..Len(sentEvents) :
              /\ sentEvents[k].Project = monitoringEvent.project
              /\ sentEvents[k].Service = monitoringEvent.service

\* the shipyard of project shop could not be retrieved: one errored event,
\* ConfigureMonitoring was not called
C24_Witness ==
    /\ monitoringPc = "returned"
    /\ MonitoringStarted
    /\ ShipyardFailed
    /\ Len(sentEvents) = 1
    /\ sentEvents[1].Status = "StatusErrored"
    /\ MonitoringCalled("GetShipyard")
    /\ ~MonitoringCalled("ConfigureMonitoring")


\* the Keptn API credentials could not be obtained, or the connection could
\* not be verified with them
KeptnAPICheckFailed ==
    \/ monitoringEnv.GetKeptnCredentials.err # ""
    \/ monitoringEnv.CheckKeptnConnection # ""

\* C25: HandleEvent returns no error in every case, also when
\* configureMonitoring fails or SendCloudEvent fails; a failure to obtain the
\* Keptn API credentials or to verify the connection does not abort the
\* configuration: the Keptn handler is created, the shipyard fetched and
\* ConfigureMonitoring called as without the failure, the failure is not the
\* error of configureMonitoring, and it is recorded in the message of the
\* succeeded event whenever entities were configured.
C25_HandleEventReturnsNoError ==
    monitoringPc = "returned" =>
        /\ monitoringResult.HandleEvent = ""
        /\ ~monitoringEvent.notForDynatrace =>
              /\ MonitoringCalled("GetKeptnCredentials")
              /\ MonitoringCalled("CheckKeptnConnection") <=>
                    monitoringEnv.GetKeptnCredentials.err = ""
              /\ MonitoringCalled("NewKeptn")
        /\ MonitoringStarted =>
              /\ MonitoringCalled("GetShipyard") <=> monitoringEvent.project # ""
              /\ MonitoringCalled("ConfigureMonitoring") <=> ~ShipyardFailed
        /\ monitoringResult.configureMonitoring # "" =>
              /\ monitoringResult.configureMonitoring # monitoringEnv.GetKeptnCredentials.err
              /\ monitoringResult.configureMonitoring # monitoringEnv.CheckKeptnConnection
              /\ \/ ~MonitoringStarted
                 \/ ShipyardFailed
                 \/ monitoringEnv.ConfigureMonitoring.err # ""
        /\ \A k \in 1..Len(sentEvents) :
              /\ sentEvents[k].Status = "StatusErrored" =>
                    sentEvents[k].Message = monitoringResult.configureMonitoring
              /\ (sentEvents[k].Status = "StatusSucceeded"
                    /\ ~monitoringEnv.ConfigureMonitoring.configured.nil) =>
                    /\ Contains(sentEvents[k].Message, "---Keptn API Connection Check:--- \n")
                    /\ Contains(sentEvents[k].Message, "Connection Successful: false") <=>
                          KeptnAPICheckFailed
                    /\ Contains(sentEvents[k].Message, "Connection Successful: true") <=>
                          ~KeptnAPICheckFailed
                    /\ Contains(sentEvents[k].Message, "Failed to get Keptn API Credentials") <=>
                          monitoringEnv.GetKeptnCredentials.err # ""
                    /\ Contains(sentEvents[k].Message, "Keptn API connection cannot be verified") <=>
                          (/\ monitoringEnv.GetKeptnCredentials.err = ""
                           /\ monitoringEnv.CheckKeptnConnection # "")

\* the credentials could not be obtained, ConfigureMonitoring failed and the
\* errored event could not be sent: HandleEvent still returned no error
C25_Witness ==
    /\ monitoringPc = "returned"
    /\ monitoringEnv.GetKeptnCredentials.err # ""
    /\ MonitoringCalled("ConfigureMonitoring")
    /\ monitoringEnv.ConfigureMonitoring.err # ""
    /\ monitoringEnv.SendCloudEvent # ""
    /\ monitoringResult.configureMonitoring = monitoringEnv.ConfigureMonitoring.err
    /\ monitoringResult.HandleEvent = ""


(***************************************************************************)
(* Properties of NewEventHandler and gotEvent.                             *)
(***************************************************************************)
\* the operations NewEventHandler performed, as a set
Performed == { lookups[k].op : k \in 1..Len(lookups) }

ConfigurationLookups == { "GetDynatraceConfig" }

CredentialLookups ==
    { "NewCredentialManager", "NewCredentialManagerSLIServiceFallbackDecorator",
      "NewCredentialManagerDefaultFallbackDecorator", "GetDynatraceCredentials" }

\* the Dynatrace client and the Keptn client made for a handled event
EventClientCreations == { "NewClient", "NewDefaultClient" }

\* every creation of a client, the configuration getter's resource client
\* included
ClientCreations == EventClientCreations \cup { "NewDefaultResourceClient" }

\* C26, as stated: for release.finished or a type getEventAdapter does not
\* handle, NewEventHandler returns the no-op handler and performs no
\* configuration lookup, no credential lookup and no client creation.
C26_IgnoredEventCreatesNoClient ==
    (handlerPc = "handled" /\ event.type \notin DOMAIN AdapterOf) =>
        /\ handler = NoOpHandler
        /\ Performed \cap (ConfigurationLookups \cup CredentialLookups \cup ClientCreations) = {}

\* C26, amended: for release.finished or a type getEventAdapter does not
\* handle, NewEventHandler returns the no-op handler and performs no
\* configuration lookup, no credential lookup and no creation of the
\* Dynatrace or Keptn client; all it did is construct the configuration
\* getter with its default resource client, which it does for every event
\* before it looks at the type.
C26_IgnoredEventPerformsNoLookup ==
    (handlerPc = "handled" /\ event.type \notin DOMAIN AdapterOf) =>
        /\ handler = NoOpHandler
        /\ Performed \cap (ConfigurationLookups \cup CredentialLookups
                              \cup EventClientCreations) = {}
        /\ lookups = << Lookup("NewDefaultResourceClient", ""),
                        Lookup("NewDynatraceConfigGetter", "") >>

\* a release.finished event, received while the credential manager cannot be
\* created and the credentials cannot be loaded: nothing of that is noticed
C26_Witness ==
    /\ handlerPc = "handled"
    /\ event.type = "sh.keptn.event.release.finished"
    /\ environment.cmFails
    /\ environment.credsFail
    /\ handler = NoOpHandler
    /\ Len(lookups) = 2


\* the failure NewEventHandler met first, "" when it met none
FirstFailure ==
    IF event.type \notin DOMAIN AdapterOf THEN ""
    ELSE IF event.adapterFails THEN "could not parse event payload"
    ELSE IF environment.cmFails THEN "could not initialize CredentialManager"
    ELSE IF environment.credsFail THEN "Failed to load Dynatrace credentials"
    ELSE IF environment.keptnClientFails THEN "Could not get create Keptn client"
    ELSE ""

\* C27: NewEventHandler returns no error; when the event adapter cannot be
\* built, the credentials cannot be obtained or the Keptn client cannot be
\* created, it returns an ErrorHandler that carries that error, and any other
\* handler otherwise; gotEvent calls HandleEvent exactly once and returns what
\* that call returned.
C27_NewEventHandlerReturnsNoError ==
    handlerPc = "handled" =>
        /\ gotEventCalls.NewEventHandler = ""
        /\ FirstFailure # "" => handler = ErrorHandler(FirstFailure)
        /\ FirstFailure = "" => handler.kind \notin {"ErrorHandler", ""}
        /\ Len(gotEventCalls.HandleEvent) = 1
        /\ gotEventResult = gotEventCalls.HandleEvent[1]

\* the payload of a get-sli event does not parse: an ErrorHandler was
\* returned and its HandleEvent called
C27_Witness ==
    /\ handlerPc = "handled"
    /\ event.type = "sh.keptn.event.get-sli.triggered"
    /\ event.adapterFails
    /\ handler.kind = "ErrorHandler"
    /\ handler.err = "could not parse event payload"
    /\ Len(gotEventCalls.HandleEvent) = 1


\* the argument of the lookups of the given operation, in order
ArgumentsOf(op) ==
    LET made == SelectSeq(lookups, LAMBDA l : l.op = op)
    IN  [k \in 1..Len(made) |-> made[k].arg]

\* C28: getDynatraceCredentialsAndConfig is called for every event that has
\* an adapter; when the configuration cannot be loaded it goes on with the
\* default configuration (secret dynatrace, empty dashboard, no attach rules)
\* and looks the credentials up under that secret name; it returns an error
\* exactly when the credential manager cannot be created or the credentials
\* lookup fails, and then no configuration and no credentials; the
\* SLI-service fallback decorator is used exactly for get-sli.triggered, the
\* default fallback decorator for every other type.
C28_ConfigurationFallback ==
    handlerPc = "handled" =>
        /\ credentialsAndConfig.called <=>
              (event.type \in DOMAIN AdapterOf /\ ~event.adapterFails)
        /\ credentialsAndConfig.called =>
              /\ ArgumentsOf("GetDynatraceConfig") = <<"">>
              /\ (credentialsAndConfig.err # "") <=>
                    (environment.cmFails \/ environment.credsFail)
              /\ credentialsAndConfig.err # "" =>
                    /\ credentialsAndConfig.config = NilConfig
                    /\ credentialsAndConfig.creds = "nil"
                    /\ credentialsAndConfig.secretName = ""
              /\ credentialsAndConfig.err = "" =>
                    /\ credentialsAndConfig.creds = "creds"
                    /\ environment.config.err =>
                          /\ credentialsAndConfig.config.DtCreds = "dynatrace"
                          /\ credentialsAndConfig.config.Dashboard = ""
                          /\ credentialsAndConfig.config.AttachRules = "nil"
                    /\ ~environment.config.err =>
                          credentialsAndConfig.config = environment.config.file
              /\ ArgumentsOf("GetDynatraceCredentials") =
                    IF environment.cmFails THEN <<>>
                    ELSE IF environment.config.err THEN <<"dynatrace">>
                    ELSE << environment.config.file.DtCreds >>
              /\ ("NewCredentialManagerSLIServiceFallbackDecorator" \in Performed) <=>
                    (~environment.cmFails /\ event.type = "sh.keptn.event.get-sli.triggered")
              /\ ("NewCredentialManagerDefaultFallbackDecorator" \in Performed) <=>
                    (~environment.cmFails /\ event.type # "sh.keptn.event.get-sli.triggered")

\* the configuration of a deployment.finished event cannot be loaded: the
\* credentials were looked up under dynatrace and the default configuration
\* was returned with them
C28_Witness ==
    /\ handlerPc = "handled"
    /\ event.type = "sh.keptn.event.deployment.finished"
    /\ environment.config.err
    /\ credentialsAndConfig.called
    /\ credentialsAndConfig.err = ""
    /\ credentialsAndConfig.config.DtCreds = "dynatrace"
    /\ ArgumentsOf("GetDynatraceCredentials") = <<"dynatrace">>
    /\ "NewCredentialManagerDefaultFallbackDecorator" \in Performed


(***************************************************************************)
(* Properties of the dashboard locator: list order, the two receivers.     *)
(***************************************************************************)
\* the first position of a matching dashboard
FirstMatching == CHOOSE i \in MatchingDashboards : \A j \in MatchingDashboards : i <= j

\* what the called implementation returns for another list
SearchAgain(ds) ==
    IF searchImpl = "strings"
    THEN SearchForDashboardMatching(ds, project, stage, service)
    ELSE SearchForDashboardMatchingEvent(ds,
             [Project |-> project, Service |-> service, Stage |-> stage])

\* C29: when several dashboards match, the identifier of the first one in
\* list order is returned; a dashboard that does not match, placed before the
\* others, does not change the result: the search returns what it returns
\* for the list without it.
C29_FirstMatchInListOrder ==
    searchPc = "done" =>
        /\ MatchingDashboards # {} => searchResult = dashboards[FirstMatching].ID
        /\ (Len(dashboards) >= 1 /\ 1 \notin MatchingDashboards) =>
              searchResult = SearchAgain(Tail(dashboards))

\* two dashboards match, the first one's identifier is returned
C29_Witness ==
    /\ searchPc = "done"
    /\ searchImpl = "strings"
    /\ MatchingDashboards = {1, 2}
    /\ dashboards[1].Name # dashboards[2].Name
    /\ searchResult = dashboards[1].ID
    /\ searchResult # dashboards[2].ID

\* C30: for every dashboard list and every triple, the search by event and
\* the search by (project, stage, service) return the same identifier.
C30_BothImplementationsAgree ==
    searchPc = "done" =>
        /\ searchImpl = "strings" =>
              searchResult = SearchForDashboardMatchingEvent(dashboards,
                                 [Project |-> project, Service |-> service, Stage |-> stage])
        /\ searchImpl = "event" =>
              searchResult = SearchForDashboardMatching(dashboards, project, stage, service)

\* the search by event skipped a dashboard of another stage and found one
\* whose pairs are in neither implementation's order
C30_Witness ==
    /\ searchPc = "done"
    /\ searchImpl = "event"
    /\ Len(dashboards) = 2
    /\ dashboards[1].Name = "KQG;project=shop;service=carts;stage=prod"
    /\ dashboards[2].Name = "KQG;STAGE=dev;Service=Carts;project=shop"
    /\ stage = "dev"
    /\ searchResult = dashboards[2].ID
    /\ SearchForDashboardMatching(dashboards, project, stage, service) = dashboards[2].ID

====
